---- MODULE Spec2Model ----
(***************************************************************************)
(* A model of the browser-controller: the Browser reconciler               *)
(* (controllers/browser), the platform objects it reads and writes (one    *)
(* Browser, the pods of its namespace) and the BrowserConfigStore lookups  *)
(* it depends on.  One reconcile pass is one atomic action: the scheduler  *)
(* runs at most one pass per Browser at a time and every platform call of  *)
(* a pass is a blocking round trip.  Platform failures are inputs of the   *)
(* pass: the set F of call sites that fail, the per-attempt outcomes of a  *)
(* failing retry helper, and the platform's answer to a graceful delete.   *)
(***************************************************************************)
EXTENDS FiniteSets, Integers, Sequences, TLC

VARIABLES browser, pods, config, creates, last, catalog

vars == <<browser, pods, config, creates, last, catalog>>

(***************************************************************************)
(* Program constants                                                       *)
(***************************************************************************)
browserPodFinalizer == "browserpod.selenosis.io/finalizer"
maxRetries == 5
mediumRetry == 10
periodicReconcile == 30
quickCheck == 3
podDeletionTimeout == 300
podCreationTimeout == 300
browserConfigFinalizer == "browserconfig.selenosis.io/finalizer"
shortRetry == 5
browserContainerName == "browser"
sidecarContainerName == "seleniferous"
selenosisOptionsAnnotationKey == "selenosis.io/options"

PodPending == "Pending"
PodRunning == "Running"
PodSucceeded == "Succeeded"
PodFailed == "Failed"
PodUnknown == "Unknown"

(***************************************************************************)
(* Bounds                                                                  *)
(***************************************************************************)
\* successful pod creates recorded for the Browser before passes stop
MaxCreates == 2
\* call sites that may fail in one pass
MaxFaults == 2

\* longest scripted run of failing attempts given to a retry helper
MaxScript == 6

(***************************************************************************)
(* Maps (Go map[string]string): a lookup of a missing key yields ""        *)
(***************************************************************************)
EmptyMap == [k \in {} |-> ""]

Lookup(m, k) == IF k \in DOMAIN m THEN m[k] ELSE ""

\* m with the entries of o written over it
Merge(m, o) == [k \in (DOMAIN m) \cup (DOMAIN o) |-> IF k \in DOMAIN o THEN o[k] ELSE m[k]]

\* nullable fields are Go pointers: a nil pointer is told apart from an empty
\* value
Nil(zero) == [nil |-> TRUE, v |-> zero]

Ptr(v) == [nil |-> FALSE, v |-> v]

NilList == Nil(<<>>)

NilMap == Nil(EmptyMap)

NilStr == Nil("")

(***************************************************************************)
(* The objects                                                             *)
(***************************************************************************)
BrowserNamespace == "ns"
BrowserObjName == "b1"

\* the pod names of the namespace the model follows
PodNames == {BrowserObjName, "b1-x"}

NoStatus ==
  [phase |-> "", reason |-> "", message |-> <<>>, podIP |-> "", startTime |-> 0,
   containerStatuses |-> <<>>]

NoBrowser ==
  [exists |-> FALSE, name |-> BrowserObjName, namespace |-> BrowserNamespace,
   finalizers |-> {}, labels |-> EmptyMap, annotations |-> EmptyMap,
   deleting |-> FALSE,
   spec |-> [browserName |-> "", browserVersion |-> ""],
   status |-> NoStatus]

NoPodStatus ==
  [phase |-> "", reason |-> "", message |-> "", podIP |-> "", startTime |-> 0,
   containerStatuses |-> <<>>]

NoPod ==
  [exists |-> FALSE, name |-> "", namespace |-> "", owner |-> "",
   labels |-> EmptyMap, annotations |-> EmptyMap, initContainers |-> <<>>, containers |-> <<>>,
   deleting |-> FALSE, age |-> 0, delAge |-> 0, status |-> NoPodStatus]

\* sampled ages (seconds) of a pod and of a pending pod deletion
PodAges == {0, podCreationTimeout, podCreationTimeout + 1}
DelAges == {0, podDeletionTimeout, podDeletionTimeout + 1}

(***************************************************************************)
(* Container states as the kubelet reports them                            *)
(***************************************************************************)
Waiting(reason, message) ==
  [kind |-> "waiting", reason |-> reason, message |-> message, exitCode |-> 0,
   startedAt |-> 0, finishedAt |-> 0]

Running(startedAt) ==
  [kind |-> "running", reason |-> "", message |-> "", exitCode |-> 0,
   startedAt |-> startedAt, finishedAt |-> 0]

Terminated(reason, exitCode) ==
  [kind |-> "terminated", reason |-> reason, message |-> "", exitCode |-> exitCode,
   startedAt |-> 1, finishedAt |-> 2]

(***************************************************************************)
(* Config Store lookups                                                    *)
(***************************************************************************)
\* strings.ToLower on the names and versions the model uses
ToLower(s) ==
  CASE s \in {"Chrome", "CHROME"} -> "chrome"
    [] s = "120-RC" -> "120-rc"
    [] s = "NS" -> "ns"
    [] OTHER -> s

\* keyFor without the lowercasing
keyForCaseSensitive(namespace, browserName, version) ==
  <<namespace, browserName, version>>

keyFor(namespace, browserName, version) ==
  <<namespace, ToLower(browserName), ToLower(version)>>

\* a nil *BrowserVersionConfigSpec
NoSpec ==
  [image |-> "", labels |-> EmptyMap, annotations |-> EmptyMap, workingDir |-> NilStr,
   initContainers |-> <<>>, sidecars |-> <<>>]

StoreGet(namespace, browserName, version) ==
  LET key == keyFor(namespace, browserName, version)
  IN [cfg |-> IF key \in DOMAIN config THEN config[key] ELSE NoSpec,
      exists |-> key \in DOMAIN config]

(***************************************************************************)
(* controllerutil finalizer helpers                                        *)
(***************************************************************************)
ContainsFinalizer(b, f) == f \in b.finalizers

AddFinalizer(b, f) == [b EXCEPT !.finalizers = @ \cup {f}]

RemoveFinalizer(b, f) == [b EXCEPT !.finalizers = @ \ {f}]

(***************************************************************************)
(* The platform's object store                                             *)
(***************************************************************************)
\* an object marked for deletion disappears with its last finalizer
Settle(b) == IF b.deleting /\ b.finalizers = {} THEN NoBrowser ELSE b

\* client.Patch writes everything but the status; Status().Patch only the status
MetaPatch(current, updated) == Settle([updated EXCEPT !.status = current.status])

StatusPatch(current, updated) == [current EXCEPT !.status = updated.status]

\* client.Delete of the Browser
DeleteBrowserObj(b) ==
  IF ~b.exists THEN b
  ELSE IF b.finalizers # {} THEN [b EXCEPT !.deleting = TRUE]
  ELSE NoBrowser

\* client.Delete of a pod; a graceful delete leaves the pod terminating or,
\* when the platform has nothing to wait for (plat = "graceGone"), removes it
DeletePodObj(ps, name, force, plat) ==
  IF ~ps[name].exists THEN ps
  ELSE IF force \/ plat = "graceGone" THEN [ps EXCEPT ![name] = NoPod]
  ELSE IF ps[name].deleting THEN ps
  ELSE [ps EXCEPT ![name] = [@ EXCEPT !.deleting = TRUE, !.delAge = 0]]

(***************************************************************************)
(* The pass context: stored objects as the pass has left them so far, the  *)
(* inputs of the pass, and what it has done                                *)
(***************************************************************************)
NewPass(b, ps, F, fs, plat) ==
  [b |-> b, pods |-> ps, F |-> F, fs |-> fs, plat |-> plat,
   ops |-> <<>>, tried |-> {}, failed |-> {}, created |-> 0]

\* the call at `site` failed
Fail(c, site) == [c EXCEPT !.failed = @ \cup {site}, !.tried = @ \cup {site}]

\* the call at `site` succeeded and is logged as `op`
Done(c, site, op) == [c EXCEPT !.ops = Append(@, op), !.tried = @ \cup {site}]

\* ctrl.Result and error of a pass, with the objects it leaves behind
Ret(c, requeueAfter, err) ==
  [b |-> c.b, pods |-> c.pods, ops |-> c.ops, tried |-> c.tried, failed |-> c.failed,
   created |-> c.created, res |-> [requeueAfter |-> requeueAfter, err |-> err]]

(***************************************************************************)
(* retryUpdate / retryStatusUpdate                                         *)
(***************************************************************************)
\* outcome of attempt i: scripted for a failing call, "ok" otherwise
AttemptOutcome(outs, i) == IF i <= Len(outs) THEN outs[i] ELSE "ok"

\* the loop with one attempt too many
RetryRunOneMore(outs) ==
  LET decisive == {i \in 1..(maxRetries + 1) : AttemptOutcome(outs, i) # "conflict"}
      n == IF decisive = {} THEN 0
           ELSE CHOOSE i \in decisive : \A j \in decisive : i <= j
  IN [attempts |-> IF n = 0 THEN maxRetries + 1 ELSE n,
      outcome |-> IF n = 0 THEN "exhausted" ELSE AttemptOutcome(outs, n)]

\* the loop going on after a patch error as it does after a conflict
RetryRunPastErrors(outs) ==
  LET decisive == {i \in 1..maxRetries : AttemptOutcome(outs, i) \notin {"conflict", "patchErr"}}
      n == IF decisive = {} THEN 0
           ELSE CHOOSE i \in decisive : \A j \in decisive : i <= j
  IN [attempts |-> IF n = 0 THEN maxRetries ELSE n,
      outcome |-> IF n = 0 THEN "exhausted" ELSE AttemptOutcome(outs, n)]

\* the loop: attempts are made while they meet a version conflict, at most
\* maxRetries of them
RetryRun(outs) ==
  LET decisive == {i \in 1..maxRetries : AttemptOutcome(outs, i) # "conflict"}
      n == IF decisive = {} THEN 0
           ELSE CHOOSE i \in decisive : \A j \in decisive : i <= j
  IN [attempts |-> IF n = 0 THEN maxRetries ELSE n,
      outcome |-> IF n = 0 THEN "exhausted" ELSE AttemptOutcome(outs, n)]

\* the patches a run has submitted: every attempt but one whose fetch failed
PatchAttempts(run) ==
  IF run.outcome = "getErr" THEN run.attempts - 1 ELSE run.attempts

retryUpdate(c, site, updateFunc(_)) ==
  LET run == RetryRun(IF site \in c.F THEN c.fs ELSE <<>>)
  IN IF ~c.b.exists \/ run.outcome # "ok" THEN Fail(c, site)
     ELSE Done([c EXCEPT !.b = MetaPatch(c.b, updateFunc(c.b))], site, site)

retryStatusUpdate(c, site, updateFunc(_)) ==
  LET run == RetryRun(IF site \in c.F THEN c.fs ELSE <<>>)
  IN IF ~c.b.exists \/ run.outcome # "ok" THEN Fail(c, site)
     ELSE Done([c EXCEPT !.b = StatusPatch(c.b, updateFunc(c.b))], site, site)

(***************************************************************************)
(* Launch-spec synthesis                                                   *)
(***************************************************************************)
\* a nil *SelenosisOptions
NoOpts == [present |-> FALSE, labels |-> EmptyMap, containers |-> EmptyMap]

\* json.Unmarshal into SelenosisOptions, on the documents the model uses
jsonUnmarshal(raw) ==
  CASE raw = "{}" -> [err |-> FALSE, opts |-> [present |-> TRUE, labels |-> EmptyMap, containers |-> EmptyMap]]
    [] raw = "{\"labels\":{\"team\":\"qa\"}}" ->
         [err |-> FALSE, opts |-> [present |-> TRUE, labels |-> [k \in {"team"} |-> "qa"], containers |-> EmptyMap]]
    [] OTHER -> [err |-> TRUE, opts |-> NoOpts]

\* parseSelenosisOptions with the unmarshal error dropped
parseSelenosisOptionsLenient(ann) ==
  LET raw == Lookup(ann, selenosisOptionsAnnotationKey)
  IN IF raw = "" THEN [err |-> FALSE, opts |-> NoOpts]
     ELSE [err |-> FALSE, opts |-> jsonUnmarshal(raw).opts]

parseSelenosisOptions(ann) ==
  LET raw == Lookup(ann, selenosisOptionsAnnotationKey)
  IN IF raw = "" THEN [err |-> FALSE, opts |-> NoOpts]
     ELSE jsonUnmarshal(raw)

applySelenosisOptions(pod, opts) ==
  IF ~opts.present THEN pod
  ELSE [pod EXCEPT !.labels = Merge(@, opts.labels)]

\* the container built for the init container ic of the resolved spec
initContainer(cfg, ic) ==
  [name |-> ic.name, ports |-> ic.ports,
   workingDir |-> IF ~cfg.workingDir.nil THEN cfg.workingDir.v
                  ELSE IF ~ic.workingDir.nil THEN ic.workingDir.v
                  ELSE ""]

\* the browser container
browserContainer(cfg) ==
  [name |-> browserContainerName, ports |-> <<>>,
   workingDir |-> IF ~cfg.workingDir.nil THEN cfg.workingDir.v ELSE ""]

\* the container built for the sidecar s of the resolved spec
sidecar(cfg, s) ==
  [name |-> s.name, ports |-> s.ports,
   workingDir |-> IF ~s.workingDir.nil THEN s.workingDir.v ELSE ""]

\* buildBrowserPod with a generated pod name instead of the Browser's name
buildBrowserPodGeneratedName(b, cfg, opts) ==
  applySelenosisOptions(
    [exists |-> TRUE, name |-> "b1-x", namespace |-> b.namespace, owner |-> b.name,
     labels |-> Merge(b.labels, cfg.labels),
     annotations |-> Merge([k \in (DOMAIN b.annotations) \ {selenosisOptionsAnnotationKey}
                              |-> b.annotations[k]], cfg.annotations),
     initContainers |-> [i \in 1..Len(cfg.initContainers) |-> initContainer(cfg, cfg.initContainers[i])],
     containers |-> <<browserContainer(cfg)>> \o
                    [i \in 1..Len(cfg.sidecars) |-> sidecar(cfg, cfg.sidecars[i])],
     deleting |-> FALSE, age |-> 0, delAge |-> 0, status |-> NoPodStatus],
    opts)

buildBrowserPod(b, cfg, opts) ==
  applySelenosisOptions(
    [exists |-> TRUE, name |-> b.name, namespace |-> b.namespace, owner |-> b.name,
     labels |-> Merge(b.labels, cfg.labels),
     annotations |-> Merge([k \in (DOMAIN b.annotations) \ {selenosisOptionsAnnotationKey}
                              |-> b.annotations[k]], cfg.annotations),
     initContainers |-> [i \in 1..Len(cfg.initContainers) |-> initContainer(cfg, cfg.initContainers[i])],
     containers |-> <<browserContainer(cfg)>> \o
                    [i \in 1..Len(cfg.sidecars) |-> sidecar(cfg, cfg.sidecars[i])],
     deleting |-> FALSE, age |-> 0, delAge |-> 0, status |-> NoPodStatus],
    opts)

\* createPod whose pod never reaches the server
createPodLost(c, b, browserSpec, opts) ==
  IF "createPod" \in c.F THEN Fail(c, "createPod")
  ELSE Done(c, "createPod", "createPod")

\* client.Create of a pod: the server stores it as Pending
createPod(c, b, browserSpec, opts) ==
  LET pod == buildBrowserPod(b, browserSpec, opts)
  IN IF "createPod" \in c.F THEN Fail(c, "createPod")
     ELSE IF c.pods[pod.name].exists THEN Done(c, "createPod", "createPod:AlreadyExists")
     ELSE Done([c EXCEPT !.pods[pod.name] = [pod EXCEPT !.status.phase = PodPending],
                         !.created = @ + 1],
               "createPod", "createPod")

deletePod(c, pod) ==
  IF "deletePod" \in c.F THEN Fail(c, "deletePod")
  ELSE Done([c EXCEPT !.pods = DeletePodObj(@, pod.name, TRUE, c.plat)], "deletePod", "deletePod")

\* deleteBrowser that releases the finalizer and leaves the Browser in place
deleteBrowserFinalizerOnly(c, b) ==
  LET c1 == IF ContainsFinalizer(b, browserPodFinalizer)
            THEN retryUpdate(c, "removeFinalizer",
                             LAMBDA x : RemoveFinalizer(x, browserPodFinalizer))
            ELSE c
  IN IF "removeFinalizer" \in c1.failed THEN Ret(c1, mediumRetry, TRUE)
     ELSE Ret(c1, 0, FALSE)

deleteBrowser(c, b) ==
  LET c1 == IF ContainsFinalizer(b, browserPodFinalizer)
            THEN retryUpdate(c, "removeFinalizer",
                             LAMBDA x : RemoveFinalizer(x, browserPodFinalizer))
            ELSE c
  IN IF "removeFinalizer" \in c1.failed THEN Ret(c1, mediumRetry, TRUE)
     ELSE IF "deleteBrowser" \in c1.F THEN Ret(Fail(c1, "deleteBrowser"), 0, TRUE)
     ELSE Ret(Done([c1 EXCEPT !.b = DeleteBrowserObj(@)], "deleteBrowser", "deleteBrowser"), 0, FALSE)

\* handleMissingPod that treats a missing catalog entry as a retryable error
handleMissingPodRetrying(c, b) ==
  LET got == StoreGet(b.namespace, b.spec.browserName, b.spec.browserVersion)
      parsed == parseSelenosisOptions(b.annotations)
  IN IF ~got.exists \/ got.cfg = NoSpec THEN Ret(c, mediumRetry, TRUE)
     ELSE IF parsed.err THEN
       LET c1 == retryStatusUpdate(c, "statusFailed",
                   LAMBDA x : [x EXCEPT !.status.phase = PodFailed,
                                        !.status.reason = "InvalidSelenosisOptions",
                                        !.status.message = <<"unmarshal", selenosisOptionsAnnotationKey>>])
       IN Ret(c1, 0, "statusFailed" \in c1.failed)
     ELSE
       LET c1 == createPod(c, b, got.cfg, parsed.opts)
       IN IF "createPod" \in c1.failed THEN Ret(c1, 0, TRUE)
          ELSE Ret(c1, quickCheck, FALSE)

handleMissingPod(c, b) ==
  LET got == StoreGet(b.namespace, b.spec.browserName, b.spec.browserVersion)
      parsed == parseSelenosisOptions(b.annotations)
  IN IF ~got.exists \/ got.cfg = NoSpec THEN
       IF b.status.phase # PodFailed THEN
         LET c1 == retryStatusUpdate(c, "statusFailed",
                     LAMBDA x : [x EXCEPT !.status.phase = PodFailed,
                                          !.status.reason = "BrowserPodSpec",
                                          !.status.message = <<"Browser configuration not found">>])
         IN Ret(c1, 0, "statusFailed" \in c1.failed)
       ELSE Ret(c, 0, FALSE)
     ELSE IF parsed.err THEN
       LET c1 == retryStatusUpdate(c, "statusFailed",
                   LAMBDA x : [x EXCEPT !.status.phase = PodFailed,
                                        !.status.reason = "InvalidSelenosisOptions",
                                        !.status.message = <<"unmarshal", selenosisOptionsAnnotationKey>>])
       IN Ret(c1, 0, "statusFailed" \in c1.failed)
     ELSE
       LET c1 == createPod(c, b, got.cfg, parsed.opts)
       IN IF "createPod" \in c1.failed THEN Ret(c1, 0, TRUE)
          ELSE Ret(c1, quickCheck, FALSE)

(***************************************************************************)
(* Status mirroring                                                        *)
(***************************************************************************)
containerStateEqual(a, b) ==
  IF a.kind # b.kind THEN FALSE
  ELSE IF a.kind = "running" THEN a.startedAt = b.startedAt
  ELSE IF a.kind = "terminated" THEN
    /\ a.exitCode = b.exitCode
    /\ a.reason = b.reason
    /\ a.message = b.message
    /\ a.startedAt = b.startedAt
    /\ a.finishedAt = b.finishedAt
  ELSE IF a.kind = "waiting" THEN a.reason = b.reason /\ a.message = b.message
  ELSE TRUE

getContainerPorts(containerName, pod) ==
  LET hits == {i \in 1..Len(pod.containers) :
                 pod.containers[i].name = containerName /\ Len(pod.containers[i].ports) > 0}
  IN IF hits = {} THEN <<>>
     ELSE pod.containers[CHOOSE i \in hits : \A j \in hits : i <= j].ports

\* updateBrowserStatus that patches the status on every pass
updateBrowserStatusAlwaysPatch(c, b, pod) ==
  LET cs == pod.status.containerStatuses
      critical == \E i \in 1..Len(cs) :
                    /\ cs[i].name \in {browserContainerName, sidecarContainerName}
                    /\ cs[i].state.kind = "terminated"
      browserStatusChanged ==
        \/ b.status.phase # pod.status.phase
        \/ b.status.podIP # pod.status.podIP
        \/ (pod.status.startTime # 0 /\ b.status.startTime # pod.status.startTime)
      newContainerStatuses ==
        [i \in 1..Len(cs) |->
           [name |-> cs[i].name, state |-> cs[i].state, image |-> cs[i].image,
            restartCount |-> cs[i].restartCount,
            ports |-> getContainerPorts(cs[i].name, pod)]]
      old == b.status.containerStatuses
      containersStatusChanged ==
        /\ Len(cs) > 0
        /\ \/ Len(newContainerStatuses) # Len(old)
           \/ \E i \in 1..Len(newContainerStatuses) :
                \/ newContainerStatuses[i].restartCount # old[i].restartCount
                \/ ~containerStateEqual(newContainerStatuses[i].state, old[i].state)
  IN IF critical THEN
       LET c1 == IF b.status.phase # PodFailed
                 THEN retryStatusUpdate(c, "statusUpdate",
                        LAMBDA x : [x EXCEPT !.status.phase = PodFailed,
                                             !.status.reason = pod.status.reason,
                                             !.status.message = <<pod.status.message>>])
                 ELSE c
       IN IF "statusUpdate" \in c1.failed THEN Ret(c1, 0, TRUE)
          ELSE deleteBrowser(c1, b)
     ELSE IF TRUE THEN
       LET c1 == retryStatusUpdate(c, "statusUpdate",
                   LAMBDA x : [x EXCEPT
                     !.status.podIP = IF browserStatusChanged THEN pod.status.podIP ELSE @,
                     !.status.startTime = IF browserStatusChanged THEN pod.status.startTime ELSE @,
                     !.status.phase = pod.status.phase,
                     !.status.containerStatuses =
                        IF containersStatusChanged THEN newContainerStatuses ELSE @])
       IN IF "statusUpdate" \in c1.failed THEN Ret(c1, 0, TRUE)
          ELSE Ret(c1, periodicReconcile, FALSE)
     ELSE Ret(c, periodicReconcile, FALSE)

updateBrowserStatus(c, b, pod) ==
  LET cs == pod.status.containerStatuses
      critical == \E i \in 1..Len(cs) :
                    /\ cs[i].name \in {browserContainerName, sidecarContainerName}
                    /\ cs[i].state.kind = "terminated"
      browserStatusChanged ==
        \/ b.status.phase # pod.status.phase
        \/ b.status.podIP # pod.status.podIP
        \/ (pod.status.startTime # 0 /\ b.status.startTime # pod.status.startTime)
      newContainerStatuses ==
        [i \in 1..Len(cs) |->
           [name |-> cs[i].name, state |-> cs[i].state, image |-> cs[i].image,
            restartCount |-> cs[i].restartCount,
            ports |-> getContainerPorts(cs[i].name, pod)]]
      old == b.status.containerStatuses
      containersStatusChanged ==
        /\ Len(cs) > 0
        /\ \/ Len(newContainerStatuses) # Len(old)
           \/ \E i \in 1..Len(newContainerStatuses) :
                \/ newContainerStatuses[i].restartCount # old[i].restartCount
                \/ ~containerStateEqual(newContainerStatuses[i].state, old[i].state)
  IN IF critical THEN
       LET c1 == IF b.status.phase # PodFailed
                 THEN retryStatusUpdate(c, "statusUpdate",
                        LAMBDA x : [x EXCEPT !.status.phase = PodFailed,
                                             !.status.reason = pod.status.reason,
                                             !.status.message = <<pod.status.message>>])
                 ELSE c
       IN IF "statusUpdate" \in c1.failed THEN Ret(c1, 0, TRUE)
          ELSE deleteBrowser(c1, b)
     ELSE IF browserStatusChanged \/ containersStatusChanged THEN
       LET c1 == retryStatusUpdate(c, "statusUpdate",
                   LAMBDA x : [x EXCEPT
                     !.status.podIP = IF browserStatusChanged THEN pod.status.podIP ELSE @,
                     !.status.startTime = IF browserStatusChanged THEN pod.status.startTime ELSE @,
                     !.status.phase = pod.status.phase,
                     !.status.containerStatuses =
                        IF containersStatusChanged THEN newContainerStatuses ELSE @])
       IN IF "statusUpdate" \in c1.failed THEN Ret(c1, 0, TRUE)
          ELSE Ret(c1, periodicReconcile, FALSE)
     ELSE Ret(c, periodicReconcile, FALSE)

(***************************************************************************)
(* The deletion handshake                                                  *)
(***************************************************************************)
\* the tail of the handshake that asks for another pass after the removal
removeFinalizerAndRequeue(c, b) ==
  LET c1 == IF ContainsFinalizer(b, browserPodFinalizer)
            THEN retryUpdate(c, "removeFinalizer",
                             LAMBDA x : RemoveFinalizer(x, browserPodFinalizer))
            ELSE c
  IN IF "removeFinalizer" \in c1.failed THEN Ret(c1, mediumRetry, TRUE)
     ELSE Ret(c1, quickCheck, FALSE)

removeFinalizerAndFinish(c, b) ==
  LET c1 == IF ContainsFinalizer(b, browserPodFinalizer)
            THEN retryUpdate(c, "removeFinalizer",
                             LAMBDA x : RemoveFinalizer(x, browserPodFinalizer))
            ELSE c
  IN IF "removeFinalizer" \in c1.failed THEN Ret(c1, mediumRetry, TRUE)
     ELSE Ret(c1, 0, FALSE)

\* handleDeletion that removes the finalizer without waiting for the pod to go
handleDeletionNoWait(c, b) ==
  IF ~ContainsFinalizer(b, browserPodFinalizer) THEN Ret(c, 0, FALSE)
  ELSE IF "getPod" \in c.F THEN removeFinalizerAndFinish(Fail(c, "getPod"), b)
  ELSE
    LET pod == c.pods[b.name]
        c0 == Done(c, "getPod", "getPod")
    IN IF ~pod.exists THEN removeFinalizerAndFinish(c0, b)
       ELSE IF ~pod.deleting THEN
         IF "deletePod" \in c0.F THEN Ret(Fail(c0, "deletePod"), mediumRetry, TRUE)
         ELSE removeFinalizerAndFinish(
                Done([c0 EXCEPT !.pods =
                        DeletePodObj(@, pod.name, pod.status.phase = PodFailed, c0.plat)],
                     "deletePod",
                     IF pod.status.phase = PodFailed THEN "deletePod" ELSE "deletePodGraceful"),
                b)
       ELSE removeFinalizerAndFinish(c0, b)

\* handleDeletion that deletes the pod with grace period 0 whatever its phase
handleDeletionAlwaysForce(c, b) ==
  IF ~ContainsFinalizer(b, browserPodFinalizer) THEN Ret(c, 0, FALSE)
  ELSE IF "getPod" \in c.F THEN removeFinalizerAndFinish(Fail(c, "getPod"), b)
  ELSE
    LET pod == c.pods[b.name]
        c0 == Done(c, "getPod", "getPod")
    IN IF ~pod.exists THEN removeFinalizerAndFinish(c0, b)
       ELSE IF ~pod.deleting THEN
         \* the pod read in this pass carries no deletion timestamp: delete and wait
         IF "deletePod" \in c0.F THEN Ret(Fail(c0, "deletePod"), mediumRetry, TRUE)
         ELSE Ret(Done([c0 EXCEPT !.pods =
                          DeletePodObj(@, pod.name, TRUE, c0.plat)],
                       "deletePod", "deletePod"),
                  quickCheck, FALSE)
       ELSE IF pod.delAge > podDeletionTimeout THEN
         \* a failed force delete is logged and the finalizer is removed anyway
         removeFinalizerAndFinish(deletePod(c0, pod), b)
       ELSE Ret(c0, quickCheck, FALSE)

\* handleDeletion without the early return for a Browser that has no finalizer
handleDeletionNoEarlyReturn(c, b) ==
  IF "getPod" \in c.F THEN removeFinalizerAndFinish(Fail(c, "getPod"), b)
  ELSE
    LET pod == c.pods[b.name]
        c0 == Done(c, "getPod", "getPod")
    IN IF ~pod.exists THEN removeFinalizerAndFinish(c0, b)
       ELSE IF ~pod.deleting THEN
         \* the pod read in this pass carries no deletion timestamp: delete and wait
         IF "deletePod" \in c0.F THEN Ret(Fail(c0, "deletePod"), mediumRetry, TRUE)
         ELSE Ret(Done([c0 EXCEPT !.pods =
                          DeletePodObj(@, pod.name, pod.status.phase = PodFailed, c0.plat)],
                       "deletePod",
                       IF pod.status.phase = PodFailed THEN "deletePod" ELSE "deletePodGraceful"),
                  quickCheck, FALSE)
       ELSE IF pod.delAge > podDeletionTimeout THEN
         \* a failed force delete is logged and the finalizer is removed anyway
         removeFinalizerAndFinish(deletePod(c0, pod), b)
       ELSE Ret(c0, quickCheck, FALSE)

\* handleDeletion that returns the error of the pod read
handleDeletionBlocksOnGetError(c, b) ==
  IF ~ContainsFinalizer(b, browserPodFinalizer) THEN Ret(c, 0, FALSE)
  ELSE IF "getPod" \in c.F THEN Ret(Fail(c, "getPod"), mediumRetry, TRUE)
  ELSE
    LET pod == c.pods[b.name]
        c0 == Done(c, "getPod", "getPod")
    IN IF ~pod.exists THEN removeFinalizerAndFinish(c0, b)
       ELSE IF ~pod.deleting THEN
         \* the pod read in this pass carries no deletion timestamp: delete and wait
         IF "deletePod" \in c0.F THEN Ret(Fail(c0, "deletePod"), mediumRetry, TRUE)
         ELSE Ret(Done([c0 EXCEPT !.pods =
                          DeletePodObj(@, pod.name, pod.status.phase = PodFailed, c0.plat)],
                       "deletePod",
                       IF pod.status.phase = PodFailed THEN "deletePod" ELSE "deletePodGraceful"),
                  quickCheck, FALSE)
       ELSE IF pod.delAge > podDeletionTimeout THEN
         \* a failed force delete is logged and the finalizer is removed anyway
         removeFinalizerAndFinish(deletePod(c0, pod), b)
       ELSE Ret(c0, quickCheck, FALSE)

\* handleDeletion without the deletion timeout: it waits for the pod to go
handleDeletionNeverForces(c, b) ==
  IF ~ContainsFinalizer(b, browserPodFinalizer) THEN Ret(c, 0, FALSE)
  ELSE IF "getPod" \in c.F THEN removeFinalizerAndFinish(Fail(c, "getPod"), b)
  ELSE
    LET pod == c.pods[b.name]
        c0 == Done(c, "getPod", "getPod")
    IN IF ~pod.exists THEN removeFinalizerAndFinish(c0, b)
       ELSE IF ~pod.deleting THEN
         \* the pod read in this pass carries no deletion timestamp: delete and wait
         IF "deletePod" \in c0.F THEN Ret(Fail(c0, "deletePod"), mediumRetry, TRUE)
         ELSE Ret(Done([c0 EXCEPT !.pods =
                          DeletePodObj(@, pod.name, pod.status.phase = PodFailed, c0.plat)],
                       "deletePod",
                       IF pod.status.phase = PodFailed THEN "deletePod" ELSE "deletePodGraceful"),
                  quickCheck, FALSE)
       ELSE Ret(c0, quickCheck, FALSE)

handleDeletion(c, b) ==
  IF ~ContainsFinalizer(b, browserPodFinalizer) THEN Ret(c, 0, FALSE)
  ELSE IF "getPod" \in c.F THEN removeFinalizerAndFinish(Fail(c, "getPod"), b)
  ELSE
    LET pod == c.pods[b.name]
        c0 == Done(c, "getPod", "getPod")
    IN IF ~pod.exists THEN removeFinalizerAndFinish(c0, b)
       ELSE IF ~pod.deleting THEN
         \* the pod read in this pass carries no deletion timestamp: delete and wait
         IF "deletePod" \in c0.F THEN Ret(Fail(c0, "deletePod"), mediumRetry, TRUE)
         ELSE Ret(Done([c0 EXCEPT !.pods =
                          DeletePodObj(@, pod.name, pod.status.phase = PodFailed, c0.plat)],
                       "deletePod",
                       IF pod.status.phase = PodFailed THEN "deletePod" ELSE "deletePodGraceful"),
                  quickCheck, FALSE)
       ELSE IF pod.delAge > podDeletionTimeout THEN
         \* a failed force delete is logged and the finalizer is removed anyway
         removeFinalizerAndFinish(deletePod(c0, pod), b)
       ELSE Ret(c0, quickCheck, FALSE)

(***************************************************************************)
(* Reconcile                                                               *)
(***************************************************************************)
\* the loop without the creation timeout
pendingVerdictNoTimeout(pod, cs) ==
  IF cs.state.kind = "terminated" THEN "terminated"
  ELSE IF cs.state.kind = "waiting" THEN
    IF cs.state.reason # "ContainerCreating" /\ cs.state.reason # "PodInitializing"
      THEN "notReady"
    ELSE "continue"
  ELSE "continue"

\* what the loop over the container statuses of a Pending pod does at
\* container status cs: the first status that is not passed over ends the pass
pendingVerdict(pod, cs) ==
  IF cs.state.kind = "terminated" THEN "terminated"
  ELSE IF cs.state.kind = "waiting" THEN
    IF pod.age > podCreationTimeout THEN "timeout"
    ELSE IF cs.state.reason # "ContainerCreating" /\ cs.state.reason # "PodInitializing"
      THEN "notReady"
    ELSE "continue"
  ELSE "continue"

\* the Pending branch, entered at the first container status with a verdict
reconcilePendingPod(c, b, pod, cs) ==
  LET verdict == pendingVerdict(pod, cs)
      c1 == IF verdict = "notReady" THEN deletePod(c, pod) ELSE c
      c2 == retryStatusUpdate(c1, "statusFailed",
              LAMBDA x : [x EXCEPT
                !.status.phase = PodFailed,
                !.status.message =
                   CASE verdict = "terminated" -> <<"pod container terminated", cs.name>>
                     [] verdict = "timeout" ->
                          <<"pod creation timeout exceeded after", podCreationTimeout>>
                     [] OTHER -> <<"pod container failed", cs.name, cs.state.reason,
                                   cs.state.message>>])
  IN IF "deletePod" \in c1.failed THEN Ret(c1, mediumRetry, TRUE)
     ELSE IF "statusFailed" \in c2.failed THEN Ret(c2, mediumRetry, TRUE)
     ELSE Ret(c2, 0, FALSE)

\* the Failed-pod branch with the status written before the pod is deleted
reconcileFailedPodStatusFirst(c, b, pod) ==
  LET c1 == retryStatusUpdate(c, "statusFailed",
              LAMBDA x : [x EXCEPT
                !.status.phase = PodFailed,
                !.status.message = <<"pod has failed with reason", pod.status.reason,
                                     pod.status.message>>])
      c2 == deletePod(c1, pod)
  IN IF "statusFailed" \in c1.failed THEN Ret(c1, mediumRetry, TRUE)
     ELSE IF "deletePod" \in c2.failed THEN Ret(c2, mediumRetry, TRUE)
     ELSE updateBrowserStatus(c2, b, pod)

\* the Failed-pod branch: it does not return, the pass goes on to
\* updateBrowserStatus with the copies of the Browser and the pod it read
reconcileFailedPod(c, b, pod) ==
  LET c1 == deletePod(c, pod)
      c2 == retryStatusUpdate(c1, "statusFailed",
              LAMBDA x : [x EXCEPT
                !.status.phase = PodFailed,
                !.status.message = <<"pod has failed with reason", pod.status.reason,
                                     pod.status.message>>])
  IN IF "deletePod" \in c1.failed THEN Ret(c1, mediumRetry, TRUE)
     ELSE IF "statusFailed" \in c2.failed THEN Ret(c2, mediumRetry, TRUE)
     ELSE updateBrowserStatus(c2, b, pod)

\* the pass from the pod lookup on, with the failed-pod check made before
\* the check for a pod marked for deletion
reconcilePodFailedFirst(c, b) ==
  IF "getPod" \in c.F THEN Ret(Fail(c, "getPod"), 0, TRUE)
  ELSE
    LET pod == c.pods[b.name]
        c0 == Done(c, "getPod", "getPod")
        cs == pod.status.containerStatuses
        hits == {i \in 1..Len(cs) : pendingVerdict(pod, cs[i]) # "continue"}
    IN IF ~pod.exists THEN
         IF b.status.phase = PodFailed THEN Ret(c0, 0, FALSE)
         ELSE handleMissingPod(c0, b)
       ELSE IF pod.status.phase = PodFailed THEN reconcileFailedPod(c0, b, pod)
       ELSE IF pod.deleting /\ ~b.deleting THEN deleteBrowser(c0, b)
       ELSE IF pod.status.phase = PodPending /\ hits # {} THEN
         reconcilePendingPod(c0, b, pod, cs[CHOOSE i \in hits : \A j \in hits : i <= j])
       ELSE updateBrowserStatus(c0, b, pod)

\* the pass from the pod lookup on
reconcilePod(c, b) ==
  IF "getPod" \in c.F THEN Ret(Fail(c, "getPod"), 0, TRUE)
  ELSE
    LET pod == c.pods[b.name]
        c0 == Done(c, "getPod", "getPod")
        cs == pod.status.containerStatuses
        hits == {i \in 1..Len(cs) : pendingVerdict(pod, cs[i]) # "continue"}
    IN IF ~pod.exists THEN
         IF b.status.phase = PodFailed THEN Ret(c0, 0, FALSE)
         ELSE handleMissingPod(c0, b)
       ELSE IF pod.deleting /\ ~b.deleting THEN deleteBrowser(c0, b)
       ELSE IF pod.status.phase = PodFailed THEN reconcileFailedPod(c0, b, pod)
       ELSE IF pod.status.phase = PodPending /\ hits # {} THEN
         reconcilePendingPod(c0, b, pod, cs[CHOOSE i \in hits : \A j \in hits : i <= j])
       ELSE updateBrowserStatus(c0, b, pod)

\* the Failed-phase branch that drops the error of the finalizer patch
reconcileFailedBrowserDropsError(c, b) ==
  LET c1 == IF ContainsFinalizer(b, browserPodFinalizer)
            THEN retryUpdate(c, "removeFinalizer",
                             LAMBDA x : RemoveFinalizer(x, browserPodFinalizer))
            ELSE c
  IN Ret(c1, 0, FALSE)

\* the Failed-phase branch of the pass
reconcileFailedBrowser(c, b) ==
  LET c1 == IF ContainsFinalizer(b, browserPodFinalizer)
            THEN retryUpdate(c, "removeFinalizer",
                             LAMBDA x : RemoveFinalizer(x, browserPodFinalizer))
            ELSE c
  IN IF "removeFinalizer" \in c1.failed THEN Ret(c1, mediumRetry, TRUE)
     ELSE Ret(c1, 0, FALSE)

\* finalizer, identity labels and initial phase; every check reads the copy
\* of the Browser fetched at the start of the pass, every write patches the
\* stored object
reconcileEnsure(c, b) ==
  LET c1 == IF ~ContainsFinalizer(b, browserPodFinalizer)
            THEN retryUpdate(c, "addFinalizer",
                             LAMBDA x : AddFinalizer(x, browserPodFinalizer))
            ELSE c
      c2 == IF Lookup(b.labels, "selenosis.io/browser") # b.name
            THEN retryUpdate(c1, "labels",
                   LAMBDA x : [x EXCEPT !.labels =
                     Merge(@, [k \in {"selenosis.io/browser", "selenosis.io/browser.name",
                                      "selenosis.io/browser.version"} |->
                                 CASE k = "selenosis.io/browser" -> x.name
                                   [] k = "selenosis.io/browser.name" -> x.spec.browserName
                                   [] OTHER -> x.spec.browserVersion])])
            ELSE c1
      c3 == IF b.status.phase = ""
            THEN retryStatusUpdate(c2, "pending",
                   LAMBDA x : [x EXCEPT !.status.phase = PodPending])
            ELSE c2
  IN IF "addFinalizer" \in c1.failed THEN Ret(c1, 0, TRUE)
     ELSE IF "labels" \in c2.failed THEN Ret(c2, mediumRetry, TRUE)
     ELSE IF "pending" \in c3.failed THEN Ret(c3, 0, TRUE)
     ELSE reconcilePod(c3, b)

\* Reconcile without the Failed-phase branch
ReconcileNoFailedBranch(c) ==
  IF "getBrowser" \in c.F THEN Ret(Fail(c, "getBrowser"), 0, TRUE)
  ELSE
    LET c0 == Done(c, "getBrowser", "getBrowser")
    IN IF ~c.b.exists THEN Ret(c0, 0, FALSE)
       ELSE IF c.b.deleting THEN handleDeletion(c0, c.b)
       ELSE reconcileEnsure(c0, c.b)

\* Reconcile taking a Browser that is not found for a read error
ReconcileNotFoundIsError(c) ==
  IF "getBrowser" \in c.F THEN Ret(Fail(c, "getBrowser"), 0, TRUE)
  ELSE
    LET c0 == Done(c, "getBrowser", "getBrowser")
    IN IF ~c.b.exists THEN Ret(c0, 0, TRUE)
       ELSE IF c.b.deleting THEN handleDeletion(c0, c.b)
       ELSE IF c.b.status.phase = PodFailed THEN reconcileFailedBrowser(c0, c.b)
       ELSE reconcileEnsure(c0, c.b)

Reconcile(c) ==
  IF "getBrowser" \in c.F THEN Ret(Fail(c, "getBrowser"), 0, TRUE)
  ELSE
    LET c0 == Done(c, "getBrowser", "getBrowser")
    IN IF ~c.b.exists THEN Ret(c0, 0, FALSE)
       ELSE IF c.b.deleting THEN handleDeletion(c0, c.b)
       ELSE IF c.b.status.phase = PodFailed THEN reconcileFailedBrowser(c0, c.b)
       ELSE reconcileEnsure(c0, c.b)

(***************************************************************************)
(* The inputs of a pass                                                    *)
(***************************************************************************)
\* the platform calls of a pass that can fail
Sites ==
  {"getBrowser", "addFinalizer", "labels", "pending", "getPod", "deletePod",
   "statusFailed", "statusUpdate", "createPod", "removeFinalizer", "deleteBrowser"}

RetrySites ==
  {"addFinalizer", "labels", "pending", "statusFailed", "statusUpdate", "removeFinalizer"}

\* per-attempt outcomes of a retry helper that fails: a fetch error, a patch
\* error, a patch error after a conflict, conflicts on every attempt
FailScripts ==
  {<<"getErr">>, <<"patchErr">>, <<"conflict", "patchErr">>,
   [i \in 1..maxRetries |-> "conflict"]}

\* the platform's answer to a graceful pod delete: the pod is left
\* terminating, or is removed at once
Platforms == {"normal", "graceGone"}

(***************************************************************************)
(* Initial state: a Browser a client has just created                      *)
(***************************************************************************)
Annotations ==
  {EmptyMap} \cup
  {[k \in {selenosisOptionsAnnotationKey} |-> raw] :
     raw \in {"", "{\"labels\":{\"team\":\"qa\"}}", "{bad"}}

NewBrowser(ann) ==
  [NoBrowser EXCEPT !.exists = TRUE, !.annotations = ann,
                    !.spec = [browserName |-> "chrome", browserVersion |-> "120"]]

\* the resolved spec the store holds for chrome 120
ResolvedSpec ==
  [image |-> "img", labels |-> [k \in {"app"} |-> "browser"], annotations |-> EmptyMap,
   workingDir |-> NilStr, initContainers |-> <<>>,
   sidecars |-> <<[name |-> sidecarContainerName, ports |-> <<4445>>, workingDir |-> NilStr]>>]

StoreKey == keyFor(BrowserNamespace, "chrome", "120")

NoPass ==
  [op |-> "none", res |-> [requeueAfter |-> 0, err |-> FALSE], ops |-> <<>>, failed |-> {}]

\* the catalog objects as the informer has delivered them to the store
\* (objects) and those of the initial list it has still to deliver (pending)
NoCatalog == [objects |-> EmptyMap, pending |-> EmptyMap]

Init ==
  /\ browser \in {NewBrowser(ann) : ann \in Annotations}
  /\ pods = [n \in PodNames |-> NoPod]
  /\ config \in {EmptyMap, [k \in {StoreKey} |-> ResolvedSpec]}
  /\ creates = 0
  /\ last = NoPass
  /\ catalog = NoCatalog

(***************************************************************************)
(* The reconciler's step                                                   *)
(***************************************************************************)
\* the calls a pass makes under the faults F, and those of them that fail
Tried(F) == Reconcile(NewPass(browser, pods, F, <<"patchErr">>, "normal")).tried

FailedUnder(F) == Reconcile(NewPass(browser, pods, F, <<"patchErr">>, "normal")).failed

\* the fault sets of at most k calls that differ in effect: a call fails only
\* if the pass makes it
RECURSIVE FaultSetsUpTo(_)
FaultSetsUpTo(k) ==
  IF k = 0 THEN {{}}
  ELSE LET prev == FaultSetsUpTo(k - 1)
           more == UNION {{F \cup {f} : f \in Tried(F) \ F} : F \in prev}
       IN prev \cup {G \in more : FailedUnder(G) = G}

FaultSets == FaultSetsUpTo(MaxFaults)

\* the platform answers that differ in effect
PlatformsFor(F) ==
  LET ops == Reconcile(NewPass(browser, pods, F, <<"patchErr">>, "normal")).ops
      has(op) == \E i \in 1..Len(ops) : ops[i] = op
  IN {"normal"} \cup (IF has("deletePodGraceful") THEN {"graceGone"} ELSE {})

\* one pass with the faults F, the retry outcomes fs and the platform answer plat
Pass(F, fs, plat) ==
  LET r == Reconcile(NewPass(browser, pods, F, fs, plat))
  IN /\ creates < MaxCreates
     /\ browser' = r.b
     /\ pods' = r.pods
     /\ creates' = creates + r.created
     /\ last' = [op |-> "Reconcile", res |-> r.res, ops |-> r.ops, failed |-> r.failed]
     /\ UNCHANGED <<config, catalog>>

ReconcileStep ==
  \E F \in FaultSets :
  \E fs \in (IF F \cap RetrySites = {} THEN {<<>>} ELSE FailScripts) :
  \E plat \in PlatformsFor(F) :
    Pass(F, fs, plat)

(***************************************************************************)
(* The environment: the client, the kubelet, the garbage collector, time,  *)
(* the catalog                                                             *)
(***************************************************************************)
\* the statuses the kubelet reports: phase, container states in container
\* order, reason, message, pod IP, start time
PodSnapshots ==
  {[phase |-> PodPending, states |-> <<>>, reason |-> "", message |-> "", podIP |-> "", startTime |-> 0],
   [phase |-> PodPending, states |-> <<Waiting("ContainerCreating", ""), Waiting("ContainerCreating", "")>>,
    reason |-> "", message |-> "", podIP |-> "", startTime |-> 1],
   [phase |-> PodPending, states |-> <<Waiting("PodInitializing", ""), Waiting("ContainerCreating", "")>>,
    reason |-> "", message |-> "", podIP |-> "", startTime |-> 1],
   [phase |-> PodPending, states |-> <<Waiting("ContainerCreating", ""), Waiting("CrashLoopBackOff", "boom")>>,
    reason |-> "", message |-> "", podIP |-> "", startTime |-> 1],
   [phase |-> PodPending, states |-> <<Terminated("Error", 1), Waiting("CrashLoopBackOff", "boom")>>,
    reason |-> "", message |-> "", podIP |-> "", startTime |-> 1],
   [phase |-> PodPending, states |-> <<Waiting("ContainerCreating", ""), Terminated("Error", 1)>>,
    reason |-> "", message |-> "", podIP |-> "", startTime |-> 1],
   [phase |-> PodRunning, states |-> <<Running(1), Running(1)>>,
    reason |-> "", message |-> "", podIP |-> "10.0.0.1", startTime |-> 1],
   [phase |-> PodRunning, states |-> <<Terminated("Error", 1), Running(1)>>,
    reason |-> "", message |-> "", podIP |-> "10.0.0.1", startTime |-> 1],
   [phase |-> PodFailed, states |-> <<>>, reason |-> "Evicted", message |-> "node pressure",
    podIP |-> "", startTime |-> 1],
   [phase |-> PodFailed, states |-> <<Terminated("Error", 1), Terminated("Error", 1)>>,
    reason |-> "Evicted", message |-> "node pressure", podIP |-> "10.0.0.1", startTime |-> 1],
   [phase |-> PodSucceeded, states |-> <<>>, reason |-> "", message |-> "",
    podIP |-> "10.0.0.1", startTime |-> 1],
   [phase |-> PodUnknown, states |-> <<>>, reason |-> "", message |-> "", podIP |-> "", startTime |-> 1]}

SnapshotStatus(pod, s) ==
  [phase |-> s.phase, reason |-> s.reason, message |-> s.message, podIP |-> s.podIP,
   startTime |-> s.startTime,
   containerStatuses |->
     [i \in 1..(IF Len(s.states) < Len(pod.containers) THEN Len(s.states) ELSE Len(pod.containers)) |->
        [name |-> pod.containers[i].name, state |-> s.states[i], image |-> "img",
         restartCount |-> 0]]]

Env(b, ps, cfg) ==
  /\ creates < MaxCreates
  /\ browser' = b
  /\ pods' = ps
  /\ config' = cfg
  /\ last' = NoPass
  /\ UNCHANGED <<creates, catalog>>

\* the owning client deletes the Browser
ClientDeletesBrowser ==
  /\ browser.exists /\ ~browser.deleting
  /\ Env(DeleteBrowserObj(browser), pods, config)

\* pod phases only move forward: Pending, then Running, then a final phase
PhaseRank(phase) ==
  CASE phase = PodPending -> 0
    [] phase = PodRunning -> 1
    [] OTHER -> 2

\* the kubelet reports a status of the Browser's pod; the age of a pod is
\* read only while the pod is Pending and is not followed after that
KubeletReports ==
  /\ browser.exists
  /\ pods[BrowserObjName].exists
  /\ \E s \in PodSnapshots :
       /\ SnapshotStatus(pods[BrowserObjName], s) # pods[BrowserObjName].status
       /\ PhaseRank(s.phase) >= PhaseRank(pods[BrowserObjName].status.phase)
       /\ Env(browser,
              [pods EXCEPT ![BrowserObjName].status = SnapshotStatus(pods[BrowserObjName], s),
                           ![BrowserObjName].age = IF s.phase = PodPending THEN @ ELSE 0],
              config)

\* someone else deletes the pod gracefully (eviction, a client)
PodDeletedElsewhere ==
  /\ browser.exists
  /\ pods[BrowserObjName].exists /\ ~pods[BrowserObjName].deleting
  /\ Env(browser, DeletePodObj(pods, BrowserObjName, FALSE, "normal"), config)

\* a terminating pod is gone
PodGone ==
  /\ pods[BrowserObjName].exists /\ pods[BrowserObjName].deleting
  /\ Env(browser, [pods EXCEPT ![BrowserObjName] = NoPod], config)

\* owner-reference garbage collection once the Browser is gone
GarbageCollect ==
  /\ ~browser.exists
  /\ \E n \in PodNames :
       /\ pods[n].exists /\ pods[n].owner = BrowserObjName /\ ~pods[n].deleting
       /\ Env(browser, DeletePodObj(pods, n, FALSE, "normal"), config)

\* time passes: the pod's age or the age of its pending deletion moves to
\* the next sampled value
Tick ==
  /\ browser.exists
  /\ pods[BrowserObjName].exists
  /\ \/ \E a \in PodAges :
          /\ pods[BrowserObjName].status.phase = PodPending
          /\ a > pods[BrowserObjName].age
          /\ \A x \in PodAges : x > pods[BrowserObjName].age => a <= x
          /\ Env(browser, [pods EXCEPT ![BrowserObjName].age = a], config)
     \/ /\ pods[BrowserObjName].deleting /\ browser.deleting
        /\ \E a \in DelAges :
             /\ a > pods[BrowserObjName].delAge
             /\ \A x \in DelAges : x > pods[BrowserObjName].delAge => a <= x
             /\ Env(browser, [pods EXCEPT ![BrowserObjName].delAge = a], config)

\* the catalog entry for the Browser's key appears in or leaves the store;
\* the store is read only by a pass that finds no pod
StoreEntryAdded ==
  /\ browser.exists /\ ~pods[BrowserObjName].exists
  /\ StoreKey \notin DOMAIN config
  /\ Env(browser, pods, [k \in {StoreKey} |-> ResolvedSpec])

StoreEntryRemoved ==
  /\ browser.exists /\ ~pods[BrowserObjName].exists
  /\ StoreKey \in DOMAIN config
  /\ Env(browser, pods, EmptyMap)

Next ==
  \/ ReconcileStep
  \/ ClientDeletesBrowser
  \/ KubeletReports
  \/ PodDeletedElsewhere
  \/ PodGone
  \/ GarbageCollect
  \/ Tick
  \/ StoreEntryAdded
  \/ StoreEntryRemoved

Spec == Init /\ [][Next]_vars

(***************************************************************************)
(* A Browser that also carries the finalizer of another controller: it     *)
(* stays in the store, marked for deletion, after the reconciler has       *)
(* released its own finalizer                                              *)
(***************************************************************************)
ForeignFinalizer == "other.io/finalizer"

InitForeign ==
  /\ browser = [NewBrowser(EmptyMap) EXCEPT !.finalizers = {ForeignFinalizer}]
  /\ pods = [n \in PodNames |-> NoPod]
  /\ config = [k \in {StoreKey} |-> ResolvedSpec]
  /\ creates = 0
  /\ last = NoPass
  /\ catalog = NoCatalog

\* the other controller releases its finalizer of a Browser marked for deletion
ForeignFinalizerReleased ==
  /\ browser.exists /\ browser.deleting
  /\ ForeignFinalizer \in browser.finalizers
  /\ Env(Settle(RemoveFinalizer(browser, ForeignFinalizer)), pods, config)

NextForeign ==
  \/ Next
  \/ ForeignFinalizerReleased

SpecForeign == InitForeign /\ [][NextForeign]_vars

(***************************************************************************)
(* A pod of the Browser's name and namespace that someone else created:    *)
(* it carries no owner reference to the Browser                            *)
(***************************************************************************)
ForeignOwner == "other-owner"

\* the statuses the foreign pod has when the Browser is created
ForeignPodStarts == {s \in PodSnapshots : s.states = <<>> /\ s.phase \in {PodPending, PodFailed}}
                      \cup {s \in PodSnapshots : s.phase = PodRunning /\ s.states = <<Running(1), Running(1)>>}

ForeignPod(s) ==
  LET pod == [buildBrowserPod(NewBrowser(EmptyMap), ResolvedSpec, NoOpts) EXCEPT
                !.owner = ForeignOwner, !.labels = EmptyMap]
  IN [pod EXCEPT !.status = SnapshotStatus(pod, s)]

InitForeignPod ==
  /\ browser = NewBrowser(EmptyMap)
  /\ pods \in {[n \in PodNames |-> IF n = BrowserObjName THEN ForeignPod(s) ELSE NoPod] :
                 s \in ForeignPodStarts}
  /\ config = [k \in {StoreKey} |-> ResolvedSpec]
  /\ creates = 0
  /\ last = NoPass
  /\ catalog = NoCatalog

SpecForeignPod == InitForeignPod /\ [][Next]_vars

(***************************************************************************)
(* Fair scheduling: the work queue keeps invoking the reconciler, platform *)
(* errors do not persist, and time passes                                  *)
(***************************************************************************)
InitLive ==
  /\ browser = NewBrowser(EmptyMap)
  /\ pods = [n \in PodNames |-> NoPod]
  /\ config = [k \in {StoreKey} |-> ResolvedSpec]
  /\ creates = 0
  /\ last = NoPass
  /\ catalog = NoCatalog

\* the work queue takes up the key again after a pass that returned an error
\* or a requeue delay: the next pass is a new invocation
Requeue ==
  /\ last.op = "Reconcile"
  /\ last.res.err \/ last.res.requeueAfter > 0
  /\ last' = NoPass
  /\ UNCHANGED <<browser, pods, config, creates, catalog>>

NextLive ==
  \/ Next
  \/ Requeue

\* the last step was a pass in which no platform call failed
CleanPassed == last.op = "Reconcile" /\ last.failed = {}

\* requeued keys are taken up and time passes (weak fairness); a pass is
\* always possible, and passes without a failed call keep coming
SpecLive ==
  InitLive /\ [][NextLive]_vars /\ WF_vars(Requeue) /\ WF_vars(Tick) /\ []<>CleanPassed

(***************************************************************************)
(* The retry helpers on their own: calls of retryUpdate and                *)
(* retryStatusUpdate under every scripted run of failing attempts          *)
(***************************************************************************)
\* the scripts that differ in effect: conflicts, then nothing more (the next
\* attempt succeeds), a patch error or a fetch error; the loop ends there
RetryScripts ==
  {[i \in 1..k |-> "conflict"] \o t :
     k \in 0..MaxScript, t \in {<<>>, <<"patchErr">>, <<"getErr">>}}

InitRetry ==
  /\ browser = NewBrowser(EmptyMap)
  /\ pods = [n \in PodNames |-> NoPod]
  /\ config = EmptyMap
  /\ creates = 0
  /\ last = NoPass
  /\ catalog = NoCatalog

\* another writer of the Browser, at work while the call runs: every attempt
\* that meets a version conflict has lost to one of its writes
OtherWriters == {"none", "finalizer", "status"}

OtherWrite(w, b) ==
  CASE w = "finalizer" -> AddFinalizer(b, ForeignFinalizer)
    [] w = "status" -> [b EXCEPT !.status.reason = "Edited"]
    [] OTHER -> b

\* the fetch hoisted out of the loop: every attempt works on the first copy
currentFetchedOnce(stored, w, outs) == stored

\* r.client.Get at the head of every attempt: the object the last attempt of
\* the run works on is the stored one, with the other writer's change once an
\* earlier attempt has met a conflict
current(stored, w, outs) ==
  LET run == RetryRun(outs)
      conflicts == IF run.outcome = "exhausted" THEN run.attempts ELSE run.attempts - 1
  IN IF conflicts > 0 THEN OtherWrite(w, stored) ELSE stored

\* what a call leaves on record: its script, the other writer, the intended
\* mutation, the run of the loop and the error it returned
RetryRecord(op, outs, w, arg, c) ==
  [op |-> op, outs |-> outs, others |-> w, arg |-> arg,
   attempts |-> RetryRun(outs).attempts,
   patches |-> PatchAttempts(RetryRun(outs)), err |-> c.failed # {}]

RetryUpdateCall ==
  \E outs \in RetryScripts : \E w \in OtherWriters : \E add \in BOOLEAN :
    LET c == retryUpdate(NewPass(current(browser, w, outs), pods, {"addFinalizer"}, outs, "normal"),
                         "addFinalizer",
                         LAMBDA x : IF add THEN AddFinalizer(x, browserPodFinalizer)
                                    ELSE RemoveFinalizer(x, browserPodFinalizer))
    IN /\ browser' = c.b
       /\ last' = RetryRecord("retryUpdate", outs, w, add, c)
       /\ UNCHANGED <<pods, config, creates, catalog>>

RetryStatusUpdateCall ==
  \E outs \in RetryScripts : \E w \in OtherWriters :
  \E phase \in {PodRunning, PodFailed} :
    LET c == retryStatusUpdate(NewPass(current(browser, w, outs), pods, {"statusUpdate"}, outs, "normal"),
                               "statusUpdate",
                               LAMBDA x : [x EXCEPT !.status.phase = phase])
    IN /\ browser' = c.b
       /\ last' = RetryRecord("retryStatusUpdate", outs, w, phase, c)
       /\ UNCHANGED <<pods, config, creates, catalog>>

NextRetry ==
  \/ RetryUpdateCall
  \/ RetryStatusUpdateCall

SpecRetry == InitRetry /\ [][NextRetry]_vars

(***************************************************************************)
(* The Config Merge Engine (apis/browserconfig/v1)                         *)
(***************************************************************************)
\* the names an environment variable can carry
EnvNames == {"x", "y", "z"}

\* the orders in which Go may walk a map keyed by these names
Orders == {ord \in [1..Cardinality(EnvNames) -> EnvNames] :
             \A i, j \in 1..Cardinality(EnvNames) : i # j => ord[i] # ord[j]}

\* result[entry.Name] = entry over a list: the last entry of a name stays
ByName(list) ==
  [n \in {list[i].name : i \in 1..Len(list)} |->
     list[CHOOSE i \in 1..Len(list) :
            /\ list[i].name = n
            /\ \A j \in 1..Len(list) : list[j].name = n => j <= i]]

\* the values of the map m in the order ord walks its keys
InOrder(m, ord) ==
  LET keys == SelectSeq(ord, LAMBDA n : n \in DOMAIN m)
  IN [i \in 1..Len(keys) |-> m[keys[i]]]

mergeMapPtr(template, override) ==
  IF template.nil /\ override.nil THEN NilMap
  ELSE Ptr(Merge(template.v, override.v))

mergeEnvPtr(template, override, ord) ==
  IF template.nil /\ override.nil THEN NilList
  ELSE Ptr(InOrder(Merge(ByName(template.v), ByName(override.v)), ord))

firstNonNilResource(template, override) ==
  IF ~override.nil THEN override ELSE template

mergeVolumePtr(template, override) ==
  LET result == template.v \o override.v
  IN IF Len(result) = 0 THEN NilList ELSE Ptr(result)

mergeTolerationPtr(template, override) ==
  LET result == template.v \o override.v
  IN IF Len(result) = 0 THEN NilList ELSE Ptr(result)

mergeHostAliasPtr(template, override) ==
  LET result == template.v \o override.v
  IN IF Len(result) = 0 THEN NilList ELSE Ptr(result)

mergeSidecarPtr(template, override) ==
  IF template.nil /\ override.nil THEN NilList
  ELSE IF override.nil THEN Ptr(template.v)
  ELSE IF template.nil THEN Ptr(override.v)
  ELSE Ptr(override.v \o
           SelectSeq(template.v,
                     LAMBDA s : \A i \in 1..Len(override.v) : override.v[i].name # s.name))

mergeVolumeMountsPtr(template, override) ==
  LET result == template.v \o override.v
  IN IF Len(result) = 0 THEN NilList ELSE Ptr(result)

mergeLocalObjectRefPtr(template, override) ==
  LET result == template.v \o override.v
  IN IF Len(result) = 0 THEN NilList ELSE Ptr(result)

mergeContainerPortPtr(template, override) ==
  LET result == template.v \o override.v
  IN IF Len(result) = 0 THEN NilList ELSE Ptr(result)

mergeVolumeMountPtr(template, override) ==
  LET result == template.v \o override.v
  IN IF Len(result) = 0 THEN NilList ELSE Ptr(result)

\* (s *Sidecar) mergeWithTemplate
mergeWithTemplate(s, t, ord) ==
  [s EXCEPT !.command = IF @.nil THEN t.command ELSE @,
            !.workingDir = t.workingDir,
            !.env = mergeEnvPtr(t.env, @, ord),
            !.ports = mergeContainerPortPtr(t.ports, @),
            !.volumeMounts = mergeVolumeMountPtr(t.volumeMounts, @),
            !.resources = IF @.nil THEN t.resources ELSE @]

NoSidecar ==
  [name |-> "", image |-> "", command |-> NilList, workingDir |-> NilStr,
   ports |-> NilList, env |-> NilList, volumeMounts |-> NilList, resources |-> NilStr]

findTemplateSidecar(template, name) ==
  LET hits == {i \in 1..Len(template.v) : template.v[i].name = name}
  IN IF template.nil \/ hits = {} THEN [found |-> FALSE, s |-> NoSidecar]
     ELSE [found |-> TRUE, s |-> template.v[CHOOSE i \in hits : \A j \in hits : i <= j]]

\* the loop after each mergeSidecarPtr: an entry of the merged list whose name
\* the version's own list carried takes over the sub-fields of the template
\* entry of that name
inheritFromTemplate(merged, original, template, ord) ==
  IF original.nil \/ template.nil THEN merged
  ELSE Ptr([i \in 1..Len(merged.v) |->
              LET s == merged.v[i]
                  templateSidecar == findTemplateSidecar(template, s.name)
              IN IF (\E k \in 1..Len(original.v) : original.v[k].name = s.name)
                    /\ templateSidecar.found
                 THEN mergeWithTemplate(s, templateSidecar.s, ord)
                 ELSE s])

\* (b *BrowserVersionConfigSpec) mergeWithSpec: b is the version's entry, t
\* the catalog spec whose template is set
mergeWithSpec(b, t, ord) ==
  [b EXCEPT
     !.labels = mergeMapPtr(t.template.v.labels, @),
     !.annotations = mergeMapPtr(t.template.v.annotations, @),
     !.env = mergeEnvPtr(t.template.v.env, @, ord),
     !.resources = firstNonNilResource(t.template.v.resources, @),
     !.imagePullPolicy = IF @ = "" THEN t.template.v.imagePullPolicy ELSE @,
     !.volumes = mergeVolumePtr(t.template.v.volumes, @),
     !.nodeSelector = mergeMapPtr(t.template.v.nodeSelector, @),
     !.affinity = IF @.nil THEN t.template.v.affinity ELSE @,
     !.tolerations = mergeTolerationPtr(t.template.v.tolerations, @),
     !.hostAliases = mergeHostAliasPtr(t.template.v.hostAliases, @),
     !.volumeMounts = mergeVolumeMountsPtr(@, t.template.v.volumeMounts),
     !.sidecars = inheritFromTemplate(mergeSidecarPtr(t.template.v.sidecars, @), @,
                                      t.template.v.sidecars, ord),
     !.initContainers = inheritFromTemplate(mergeSidecarPtr(@, t.template.v.initContainers), @,
                                            t.template.v.initContainers, ord),
     !.privileged = IF @.nil THEN t.template.v.privileged ELSE @,
     !.imagePullSecrets = mergeLocalObjectRefPtr(t.template.v.imagePullSecrets, @),
     !.dnsConfig = IF @.nil THEN t.template.v.dnsConfig ELSE @,
     !.securityContext = IF @.nil THEN t.template.v.securityContext ELSE @,
     !.workingDir = IF @.nil THEN t.template.v.workingDir ELSE @]

\* (spec *BrowserConfigSpec) MergeWithTemplate: every version entry that is
\* set is merged in place; ord is the order of Go's map walks in this call
MergeWithTemplate(spec, ord) ==
  IF spec.template.nil THEN spec
  ELSE [spec EXCEPT !.browsers =
          [browserName \in DOMAIN @ |->
             [version \in DOMAIN @[browserName] |->
                LET b == @[browserName][version]
                IN IF b.nil THEN b ELSE Ptr(mergeWithSpec(b.v, spec, ord))]]]

(***************************************************************************)
(* The merge on its own: one catalog spec with one version entry, drawn    *)
(* from every combination of list shapes, and MergeWithTemplate applied    *)
(***************************************************************************)
\* an unkeyed list of a template or of a version entry, by the ids of its
\* entries; "t1" in both gives two equal entries
TemplateIds == {NilList, Ptr(<<>>), Ptr(<<"t1">>), Ptr(<<"t1", "t2">>)}

OverrideIds == {NilList, Ptr(<<>>), Ptr(<<"t1">>), Ptr(<<"o1">>), Ptr(<<"o1", "t1">>)}

\* a keyed list, by the names of its entries; names within one list differ
TemplateNames == {NilList, Ptr(<<>>), Ptr(<<"x">>), Ptr(<<"x", "y">>)}

OverrideNames == {NilList, Ptr(<<>>), Ptr(<<"x">>), Ptr(<<"z", "x">>), Ptr(<<"y">>)}

\* the list p with f applied to every entry
Each(p, f(_)) == [p EXCEPT !.v = [i \in 1..Len(@) |-> f(@[i])]]

EnvVar(name, from) == [name |-> name, value |-> from]

\* a sidecar or init container as the template or a version entry writes it;
\* the version entry's y sets what its x leaves unset
Container(name, from) ==
  IF from = "template"
  THEN [name |-> name, image |-> "template", command |-> Ptr(<<"tmpl-cmd">>),
        workingDir |-> Ptr("/template"), ports |-> Ptr(<<8080>>),
        env |-> Ptr(<<EnvVar("x", "template")>>),
        volumeMounts |-> Ptr(<<[name |-> "tv"]>>), resources |-> Ptr("template")]
  ELSE IF name = "y"
  THEN [name |-> name, image |-> "override", command |-> Ptr(<<"own-cmd">>),
        workingDir |-> NilStr, ports |-> Ptr(<<9090>>),
        env |-> NilList,
        volumeMounts |-> Ptr(<<[name |-> "ov"]>>), resources |-> Ptr("override")]
  ELSE [name |-> name, image |-> "override", command |-> NilList,
        workingDir |-> Ptr("/override"), ports |-> NilList,
        env |-> Ptr(<<EnvVar("y", "override")>>),
        volumeMounts |-> NilList, resources |-> NilStr]

\* a template or a version entry whose unkeyed lists have the ids u and
\* whose keyed lists have the names k
ShapedFields(u, k, from) ==
  [labels |-> Ptr([n \in {"shared", from} |-> from]),
   annotations |-> NilMap,
   env |-> Each(k, LAMBDA n : EnvVar(n, from)),
   resources |-> IF from = "template" THEN Ptr("template") ELSE NilStr,
   imagePullPolicy |-> IF from = "template" THEN "IfNotPresent" ELSE "",
   volumes |-> Each(u, LAMBDA x : [name |-> x]),
   volumeMounts |-> Each(u, LAMBDA x : [name |-> x]),
   nodeSelector |-> NilMap,
   affinity |-> NilStr,
   tolerations |-> Each(u, LAMBDA x : [key |-> x]),
   hostAliases |-> Each(u, LAMBDA x : [ip |-> x]),
   initContainers |-> Each(k, LAMBDA n : Container(n, from)),
   sidecars |-> Each(k, LAMBDA n : Container(n, from)),
   privileged |-> NilStr,
   imagePullSecrets |-> Each(u, LAMBDA x : [name |-> x]),
   dnsConfig |-> NilStr,
   securityContext |-> NilStr,
   workingDir |-> IF from = "template" THEN Ptr("/work") ELSE NilStr]

NoTemplate == ShapedFields(NilList, NilList, "")

Template(u, k) == ShapedFields(u, k, "template")

BrowserVersionConfigSpec(image, u, k) ==
  ShapedFields(u, k, "override") @@ [image |-> image]

\* a catalog spec with the one version entry chrome 120
MergeSpecs ==
  {[template |-> tmpl,
    browsers |-> [bn \in {"chrome"} |->
                    [ver \in {"120"} |-> Ptr(BrowserVersionConfigSpec("img", ou, ok))]]] :
     tmpl \in {Nil(NoTemplate)} \cup {Ptr(Template(tu, tk)) : tu \in TemplateIds, tk \in TemplateNames},
     ou \in OverrideIds, ok \in OverrideNames}

InitMerge ==
  /\ browser = NoBrowser
  /\ pods = [n \in PodNames |-> NoPod]
  /\ config = EmptyMap
  /\ creates = 0
  /\ last = NoPass
  /\ catalog \in {[objects |-> [n \in {"cfg"} |-> [name |-> "cfg", namespace |-> BrowserNamespace,
                                                     spec |-> spec]],
                   pending |-> EmptyMap] : spec \in MergeSpecs}

\* MergeWithTemplate applied to a copy of the catalog spec
MergeCall ==
  \E ord \in Orders :
    /\ last.op = "none"
    /\ last' = [op |-> "MergeWithTemplate",
                out |-> MergeWithTemplate(catalog.objects["cfg"].spec, ord)
                          .browsers["chrome"]["120"].v]
    /\ UNCHANGED <<browser, pods, config, creates, catalog>>

NextMerge ==
  \/ MergeCall

SpecMerge == InitMerge /\ [][NextMerge]_vars

(***************************************************************************)
(* The BrowserConfigStore (store): the handlers of the informer's          *)
(* notifications.  A notification carries the informer's own object, a     *)
(* pointer: what a handler does to it in place is seen by the informer.    *)
(***************************************************************************)
\* bc.DeepCopy(): a private copy, nothing of it is shared with bc
DeepCopy(bc) == bc

\* the (browserName, version) pairs a catalog object declares
Declared(bc) ==
  UNION {{<<browserName, version>> : version \in DOMAIN bc.spec.browsers[browserName]} :
           browserName \in DOMAIN bc.spec.browsers}

\* the keys of the pairs a catalog object declares
DeclaredKeys(bc) == {keyFor(bc.namespace, p[1], p[2]) : p \in Declared(bc)}

\* the type switch of both handlers: the catalog object of a notification,
\* nil for a tombstone without one and for any other type
noteObject(note) ==
  IF note.kind \in {"BrowserConfig", "DeletedFinalStateUnknown"} THEN note.obj
  ELSE Nil(note.obj.v)

\* onAddOrUpdate: the store after the notification, and the informer's
\* object as the handler leaves it
onAddOrUpdate(store, note, ord) ==
  LET bc == noteObject(note)
  IN IF bc.nil THEN [config |-> store, obj |-> note.obj]
     ELSE LET bcCopy == [DeepCopy(bc.v) EXCEPT !.spec = MergeWithTemplate(@, ord)]
              keys == DeclaredKeys(bcCopy)
          IN [config |->
                [key \in (DOMAIN store) \cup keys |->
                   IF key \in keys
                   THEN LET p == CHOOSE p \in Declared(bcCopy) :
                                   keyFor(bcCopy.namespace, p[1], p[2]) = key
                        IN bcCopy.spec.browsers[p[1]][p[2]]
                   ELSE store[key]],
              obj |-> note.obj]

\* onDelete leaving a tombstone's object alone
onDeletePlainOnly(store, note) ==
  IF note.kind # "BrowserConfig" \/ note.obj.nil THEN [config |-> store, obj |-> note.obj]
  ELSE [config |-> [key \in (DOMAIN store) \ DeclaredKeys(note.obj.v) |-> store[key]],
        obj |-> note.obj]

onDelete(store, note) ==
  LET bc == noteObject(note)
  IN IF bc.nil THEN [config |-> store, obj |-> note.obj]
     ELSE [config |-> [key \in (DOMAIN store) \ DeclaredKeys(bc.v) |-> store[key]],
           obj |-> note.obj]

(***************************************************************************)
(* The store under the informer: the catalog objects of the namespace come *)
(* and go, the informer delivers the initial list and then every change,   *)
(* and the reconciler looks entries up whenever a pass needs one           *)
(***************************************************************************)
CatalogTemplate == Ptr(Template(Ptr(<<"t1">>), Ptr(<<"x">>)))

CatalogEntry(image) == Ptr(BrowserVersionConfigSpec(image, Ptr(<<"o1">>), Ptr(<<"x">>)))

\* the states of the catalog objects cfg-a and cfg-b: cfg-a with three
\* versions of two browsers, cfg-a edited down to one version, cfg-a without
\* a template, and cfg-b declaring chrome 121 as cfg-a does
CatalogStates ==
  {[name |-> "cfg-a", namespace |-> BrowserNamespace,
    spec |-> [template |-> CatalogTemplate,
              browsers |-> [bn \in {"Chrome", "firefox"} |->
                              IF bn = "Chrome"
                              THEN [ver \in {"120-RC", "121"} |-> CatalogEntry(ver)]
                              ELSE [ver \in {"99"} |-> CatalogEntry(ver)]]]],
   [name |-> "cfg-a", namespace |-> BrowserNamespace,
    spec |-> [template |-> CatalogTemplate,
              browsers |-> [bn \in {"Chrome"} |->
                              [ver \in {"120-RC"} |-> CatalogEntry("120-RC-v2")]]]],
   [name |-> "cfg-a", namespace |-> BrowserNamespace,
    spec |-> [template |-> Nil(NoTemplate),
              browsers |-> [bn \in {"Chrome"} |->
                              [ver \in {"120-RC"} |-> CatalogEntry("120-RC")]]]],
   [name |-> "cfg-b", namespace |-> BrowserNamespace,
    spec |-> [template |-> Nil(NoTemplate),
              browsers |-> [bn \in {"chrome"} |->
                              [ver \in {"121"} |-> CatalogEntry("121-b")]]]]}

\* the catalog objects that exist when the process starts
InitialLists ==
  {pending \in UNION {[names -> CatalogStates] : names \in SUBSET {"cfg-a", "cfg-b"}} :
     \A n \in DOMAIN pending : pending[n].name = n}

\* what the reconciler asks for
LookupNamespaces == {BrowserNamespace, "NS"}

LookupNames == {"chrome", "Chrome", "CHROME", "firefox"}

LookupVersions == {"120-RC", "120-rc", "121", "99"}

InitStore ==
  /\ browser = NoBrowser
  /\ pods = [n \in PodNames |-> NoPod]
  /\ config = EmptyMap
  /\ creates = 0
  /\ last = NoPass
  /\ catalog \in {[objects |-> EmptyMap, pending |-> pending] : pending \in InitialLists}

\* the informer delivers `note` about the object `name`; the handler runs
Deliver(op, name, note, r, gone) ==
  /\ config' = r.config
  /\ catalog' = [objects |-> IF gone
                             THEN [n \in (DOMAIN catalog.objects) \ {name} |-> catalog.objects[n]]
                             ELSE [n \in (DOMAIN catalog.objects) \cup {name} |->
                                     IF n = name THEN r.obj.v ELSE catalog.objects[n]],
                 pending |-> [n \in (DOMAIN catalog.pending) \ {name} |-> catalog.pending[n]]]
  /\ last' = [op |-> op, kind |-> note.kind, obj |-> note.obj,
              again |-> /\ name \in DOMAIN catalog.objects
                        /\ catalog.objects[name] = note.obj.v]
  /\ UNCHANGED <<browser, pods, creates>>

\* AddFunc for an object of the initial list
InitialAdd ==
  \E name \in DOMAIN catalog.pending : \E ord \in Orders :
    LET note == [kind |-> "BrowserConfig", obj |-> Ptr(catalog.pending[name])]
    IN Deliver("onAddOrUpdate", name, note, onAddOrUpdate(config, note, ord), FALSE)

\* AddFunc for an object created after the start
CatalogAdded ==
  /\ DOMAIN catalog.pending = {}
  /\ \E bc \in CatalogStates : \E ord \in Orders :
       /\ bc.name \notin DOMAIN catalog.objects
       /\ LET note == [kind |-> "BrowserConfig", obj |-> Ptr(bc)]
          IN Deliver("onAddOrUpdate", bc.name, note, onAddOrUpdate(config, note, ord), FALSE)

\* UpdateFunc: the object was edited, or the informer delivers it again as
\* it is (a resync)
CatalogUpdated ==
  /\ DOMAIN catalog.pending = {}
  /\ \E bc \in CatalogStates : \E ord \in Orders :
       /\ bc.name \in DOMAIN catalog.objects
       /\ LET note == [kind |-> "BrowserConfig", obj |-> Ptr(bc)]
          IN Deliver("onAddOrUpdate", bc.name, note, onAddOrUpdate(config, note, ord), FALSE)

\* DeleteFunc, with the object as last seen or with a tombstone holding it
CatalogDeleted ==
  /\ DOMAIN catalog.pending = {}
  /\ \E name \in DOMAIN catalog.objects :
     \E kind \in {"BrowserConfig", "DeletedFinalStateUnknown"} :
       LET note == [kind |-> kind, obj |-> Ptr(catalog.objects[name])]
       IN Deliver("onDelete", name, note, onDelete(config, note), TRUE)

\* a reconcile pass looks an entry up (handleMissingPod); nothing holds it
\* back while the initial list is still being delivered
StoreGetCall ==
  \E namespace \in LookupNamespaces : \E browserName \in LookupNames :
  \E version \in LookupVersions :
    /\ last' = [op |-> "Get", namespace |-> namespace, browserName |-> browserName,
                version |-> version,
                exists |-> StoreGet(namespace, browserName, version).exists,
                indexed |-> DOMAIN catalog.pending = {}]
    /\ UNCHANGED <<browser, pods, config, creates, catalog>>

NextStore ==
  \/ InitialAdd
  \/ CatalogAdded
  \/ CatalogUpdated
  \/ CatalogDeleted
  \/ StoreGetCall

SpecStore == InitStore /\ [][NextStore]_vars

(***************************************************************************)
(* The BrowserConfig reconciler (controllers/browserconfig): it guards the *)
(* deletion of catalog objects with a finalizer.  Here catalog.objects     *)
(* holds the stored catalog objects by name, with their metadata only.     *)
(***************************************************************************)
ConfigNames == {"cfg-a", "cfg-b"}

NoBrowserConfig(name) ==
  [exists |-> FALSE, name |-> name, namespace |-> BrowserNamespace,
   finalizers |-> {}, deleting |-> FALSE]

\* a catalog object marked for deletion disappears with its last finalizer
SettleConfig(o) ==
  IF o.deleting /\ o.finalizers = {} THEN NoBrowserConfig(o.name) ELSE o

\* the calls of a pass that can fail
ConfigSites == {"get", "update"}

\* what a pass returns, with the object it leaves stored
ConfigRet(o, ops, failed, requeueAfter, err) ==
  [obj |-> o, ops |-> ops, failed |-> failed,
   res |-> [requeueAfter |-> requeueAfter, err |-> err]]

\* Reconcile that leaves the finalizer of an object marked for deletion
BrowserConfigReconcileKeepsFinalizer(o, F) ==
  IF "get" \in F THEN ConfigRet(o, <<>>, {"get"}, mediumRetry, TRUE)
  ELSE IF ~o.exists THEN ConfigRet(o, <<"get">>, {}, 0, FALSE)
  ELSE IF o.deleting THEN ConfigRet(o, <<"get">>, {}, 0, FALSE)
  ELSE IF ~ContainsFinalizer(o, browserConfigFinalizer) THEN
    IF "update" \in F THEN ConfigRet(o, <<"get">>, {"update"}, shortRetry, TRUE)
    ELSE ConfigRet(AddFinalizer(o, browserConfigFinalizer), <<"get", "update">>, {}, 0, FALSE)
  ELSE ConfigRet(o, <<"get">>, {}, 0, FALSE)

\* (r BrowserConfigReconciler) Reconcile on the stored object o, with the
\* calls in F failing
BrowserConfigReconcile(o, F) ==
  IF "get" \in F THEN ConfigRet(o, <<>>, {"get"}, mediumRetry, TRUE)
  ELSE IF ~o.exists THEN ConfigRet(o, <<"get">>, {}, 0, FALSE)
  ELSE IF o.deleting THEN
    IF ContainsFinalizer(o, browserConfigFinalizer) THEN
      IF "update" \in F THEN ConfigRet(o, <<"get">>, {"update"}, shortRetry, TRUE)
      ELSE ConfigRet(SettleConfig(RemoveFinalizer(o, browserConfigFinalizer)),
                     <<"get", "update">>, {}, 0, FALSE)
    ELSE ConfigRet(o, <<"get">>, {}, 0, FALSE)
  ELSE IF ~ContainsFinalizer(o, browserConfigFinalizer) THEN
    IF "update" \in F THEN ConfigRet(o, <<"get">>, {"update"}, shortRetry, TRUE)
    ELSE ConfigRet(AddFinalizer(o, browserConfigFinalizer), <<"get", "update">>, {}, 0, FALSE)
  ELSE ConfigRet(o, <<"get">>, {}, 0, FALSE)

InitConfig ==
  /\ browser = NoBrowser
  /\ pods = [n \in PodNames |-> NoPod]
  /\ config = EmptyMap
  /\ creates = 0
  /\ last = NoPass
  /\ catalog = [objects |-> [n \in ConfigNames |-> NoBrowserConfig(n)], pending |-> EmptyMap]

\* the stored catalog object `name` becomes o
StoreConfig(name, o, l) ==
  /\ catalog' = [catalog EXCEPT !.objects[name] = o]
  /\ last' = l
  /\ UNCHANGED <<browser, pods, config, creates>>

\* one pass for the key `name`
BrowserConfigReconcileStep ==
  \E name \in ConfigNames : \E F \in SUBSET ConfigSites :
    LET r == BrowserConfigReconcile(catalog.objects[name], F)
    IN /\ r.failed = F
       /\ StoreConfig(name, r.obj,
                      [op |-> "BrowserConfigReconcile", name |-> name, res |-> r.res,
                       ops |-> r.ops, failed |-> r.failed])

\* an operator creates a catalog object, with or without the finalizer of
\* another controller
ConfigCreated ==
  \E name \in ConfigNames : \E fins \in {{}, {ForeignFinalizer}} :
    /\ ~catalog.objects[name].exists
    /\ StoreConfig(name, [NoBrowserConfig(name) EXCEPT !.exists = TRUE, !.finalizers = fins],
                   NoPass)

\* an operator deletes a catalog object
ConfigDeleted ==
  \E name \in ConfigNames :
    /\ catalog.objects[name].exists /\ ~catalog.objects[name].deleting
    /\ StoreConfig(name, SettleConfig([catalog.objects[name] EXCEPT !.deleting = TRUE]), NoPass)

\* the other controller releases its finalizer of an object marked for deletion
ConfigForeignFinalizerReleased ==
  \E name \in ConfigNames :
    /\ catalog.objects[name].exists /\ catalog.objects[name].deleting
    /\ ForeignFinalizer \in catalog.objects[name].finalizers
    /\ StoreConfig(name, SettleConfig(RemoveFinalizer(catalog.objects[name], ForeignFinalizer)),
                   NoPass)

NextConfig ==
  \/ BrowserConfigReconcileStep
  \/ ConfigCreated
  \/ ConfigDeleted
  \/ ConfigForeignFinalizerReleased

SpecConfig == InitConfig /\ [][NextConfig]_vars

(***************************************************************************)
(* A Browser that a client created with labels of its own, the identity    *)
(* labels of the controller among them or not                              *)
(***************************************************************************)
\* the labels of the new Browser: none, a label of the client, the identity
\* label alone, all three with the name and version of another browser, and
\* the identity label of another Browser
ClientLabels ==
  {EmptyMap,
   [k \in {"team"} |-> "qa"],
   [k \in {"selenosis.io/browser"} |-> BrowserObjName],
   [k \in {"selenosis.io/browser", "selenosis.io/browser.name", "selenosis.io/browser.version"} |->
      CASE k = "selenosis.io/browser" -> BrowserObjName
        [] k = "selenosis.io/browser.name" -> "firefox"
        [] OTHER -> "99"],
   [k \in {"selenosis.io/browser", "team"} |-> "b0"]}

InitLabels ==
  /\ browser \in {[NewBrowser(EmptyMap) EXCEPT !.labels = labels] : labels \in ClientLabels}
  /\ pods = [n \in PodNames |-> NoPod]
  /\ config = [k \in {StoreKey} |-> ResolvedSpec]
  /\ creates = 0
  /\ last = NoPass
  /\ catalog = NoCatalog

SpecLabels == InitLabels /\ [][Next]_vars

(***************************************************************************)
(* Launch-spec synthesis on its own: buildBrowserPod applied to resolved   *)
(* specs whose top-level working directory, init containers and sidecars   *)
(* are drawn from every combination of set and unset working directories   *)
(***************************************************************************)
MaxContainers == 2

\* a working directory: unset, or set to d
WorkingDirs(d) == {NilStr, Ptr(d)}

\* the lists of at most MaxContainers init containers or sidecars, named
\* after their kind and place, each with its own working directory or none
ContainerLists(kind) ==
  UNION {{[i \in 1..n |-> [name |-> <<kind, i>>, ports |-> <<>>, workingDir |-> wd[i]]] :
            wd \in [1..n -> WorkingDirs("/own")]} : n \in 0..MaxContainers}

BuildSpecs ==
  {[ResolvedSpec EXCEPT !.workingDir = top, !.initContainers = ics, !.sidecars = scs] :
     top \in WorkingDirs("/top"), ics \in ContainerLists("init"),
     scs \in ContainerLists("sidecar")}

InitBuild ==
  /\ browser = NewBrowser(EmptyMap)
  /\ pods = [n \in PodNames |-> NoPod]
  /\ config \in {[k \in {StoreKey} |-> cfg] : cfg \in BuildSpecs}
  /\ creates = 0
  /\ last = NoPass
  /\ catalog = NoCatalog

\* buildBrowserPod for the Browser and the resolved spec of its key
BuildCall ==
  /\ last.op = "none"
  /\ last' = [op |-> "buildBrowserPod",
              pod |-> buildBrowserPod(browser, config[StoreKey], NoOpts)]
  /\ UNCHANGED <<browser, pods, config, creates, catalog>>

NextBuild ==
  \/ BuildCall

SpecBuild == InitBuild /\ [][NextBuild]_vars

(***************************************************************************)
(* Vocabulary of the properties                                            *)
(***************************************************************************)
ThePod == pods[BrowserObjName]

HasFinalizer(b) == ContainsFinalizer(b, browserPodFinalizer)

\* the last step was a reconcile pass that made the call logged as op
Did(l, op) == l.op = "Reconcile" /\ \E i \in 1..Len(l.ops) : l.ops[i] = op

\* in the log of l, op1 was made before op2
Before(l, op1, op2) ==
  \E i, j \in 1..Len(l.ops) : i < j /\ l.ops[i] = op1 /\ l.ops[j] = op2

CriticalTerminated(pod) ==
  \E i \in 1..Len(pod.status.containerStatuses) :
    /\ pod.status.containerStatuses[i].name \in {browserContainerName, sidecarContainerName}
    /\ pod.status.containerStatuses[i].state.kind = "terminated"

\* this step is a reconcile pass of a Browser that exists and is not marked
\* for deletion
PassOnLiveBrowser == last'.op = "Reconcile" /\ browser.exists /\ ~browser.deleting

(***************************************************************************)
(* C1: whenever the pod named after a Browser exists, the Browser carries  *)
(* the finalizer: no reconcile step removes the finalizer while the pod    *)
(* still exists.                                                           *)
(***************************************************************************)
C1_FinalizerWhilePodExists ==
  (browser.exists /\ ThePod.exists) => HasFinalizer(browser)

\* C1, amended: a reconcile pass removes the finalizer while the pod still
\* exists only in the Failed-phase branch, in deleteBrowser (the pod is
\* already marked for deletion, or a critical container has terminated), or
\* in the deletion handshake when the pod could not be read or a force
\* delete after the deletion timeout failed.
C1_FinalizerRemovalCases ==
  [][(/\ last'.op = "Reconcile"
      /\ HasFinalizer(browser)
      /\ ~HasFinalizer(browser')
      /\ ThePod'.exists)
     => \/ (~browser.deleting /\ browser.status.phase = PodFailed)
        \/ (~browser.deleting /\ ThePod.deleting)
        \/ (~browser.deleting /\ CriticalTerminated(ThePod))
        \/ (browser.deleting /\ "getPod" \in last'.failed)
        \/ (browser.deleting /\ ThePod.deleting /\ ThePod.delAge > podDeletionTimeout
              /\ "deletePod" \in last'.failed)]_vars

C1_Witness ==
  /\ Did(last, "removeFinalizer")
  /\ ThePod.exists
  /\ ~HasFinalizer(browser)

(***************************************************************************)
(* C2: over the lifetime of one Browser the reconciler performs at most    *)
(* one successful pod create.                                              *)
(***************************************************************************)
C2_AtMostOneCreate == creates <= 1

(***************************************************************************)
(* C3: a Browser has at most one corresponding pod, and that pod has the   *)
(* Browser's name and namespace.                                           *)
(***************************************************************************)
C3_OnePodNamedAfterBrowser ==
  /\ \A n \in PodNames :
       (pods[n].exists /\ pods[n].owner = BrowserObjName)
         => /\ n = BrowserObjName
            /\ pods[n].name = BrowserObjName
            /\ pods[n].namespace = BrowserNamespace
  /\ Cardinality({n \in PodNames : pods[n].exists}) <= 1

C3_Witness ==
  /\ Did(last, "createPod")
  /\ ThePod.exists
  /\ ThePod.owner = BrowserObjName

(***************************************************************************)
(* C4: whenever a pass creates a pod, the stored Browser already carries   *)
(* the finalizer and its stored phase is already Pending; if adding the    *)
(* finalizer or setting Pending fails, no pod is created in that pass.     *)
(***************************************************************************)
C4_FinalizerAndPendingBeforeCreate ==
  [][/\ creates' > creates
         => /\ HasFinalizer(browser')
            /\ browser'.status.phase = PodPending
     /\ (last'.op = "Reconcile" /\ last'.failed \cap {"addFinalizer", "pending"} # {})
         => creates' = creates]_vars

(***************************************************************************)
(* C5: Failed is absorbing: once the stored phase is Failed, no step       *)
(* changes the phase or creates a pod, also when the catalog entry is      *)
(* added afterwards.                                                       *)
(***************************************************************************)
C5_FailedAbsorbing ==
  [][(browser.exists /\ browser.status.phase = PodFailed)
     => /\ browser'.exists => browser'.status.phase = PodFailed
        /\ creates' = creates
        /\ ThePod'.exists => ThePod.exists]_vars

C5_Witness ==
  /\ last.op = "Reconcile"
  /\ browser.exists
  /\ browser.status.phase = PodFailed
  /\ browser.status.reason = "BrowserPodSpec"
  /\ StoreKey \in DOMAIN config

(***************************************************************************)
(* C6: a pass without platform errors on a non-deleted Browser that has no *)
(* pod and no catalog entry sets Failed with reason BrowserPodSpec and a   *)
(* message, creates no pod and returns no error and no requeue; a second   *)
(* pass with the store unchanged leaves phase, reason and the absence of   *)
(* a pod as they are.                                                      *)
(***************************************************************************)
C6_ConfigNotFoundIsTerminal ==
  [][(/\ PassOnLiveBrowser
      /\ last'.failed = {}
      /\ ~ThePod.exists
      /\ StoreKey \notin DOMAIN config)
     => /\ browser.status.phase # PodFailed
            => /\ browser'.status.phase = PodFailed
               /\ browser'.status.reason = "BrowserPodSpec"
               /\ browser'.status.message = <<"Browser configuration not found">>
        /\ (browser.status.phase = PodFailed /\ browser.status.reason = "BrowserPodSpec")
            => /\ browser'.status.phase = PodFailed
               /\ browser'.status.reason = "BrowserPodSpec"
               /\ browser'.status.message = browser.status.message
        /\ ~ThePod'.exists
        /\ creates' = creates
        /\ last'.res = [requeueAfter |-> 0, err |-> FALSE]]_vars

\* the second pass has run: the Browser failed for the missing entry and a
\* later pass has taken the Failed-phase branch
C6_Witness ==
  /\ Did(last, "removeFinalizer")
  /\ browser.status.phase = PodFailed
  /\ browser.status.reason = "BrowserPodSpec"
  /\ StoreKey \notin DOMAIN config
  /\ ~ThePod.exists

(***************************************************************************)
(* C7: with a catalog entry, an options annotation that is not valid JSON  *)
(* sets the Browser to Failed with reason InvalidSelenosisOptions, no pod  *)
(* is created, and the pass returns no error and no requeue; an absent or  *)
(* empty annotation means no overrides and the pod is created.             *)
(***************************************************************************)
C7_InvalidOptionsAreTerminal ==
  [][(/\ PassOnLiveBrowser
      /\ last'.failed = {}
      /\ browser.status.phase # PodFailed
      /\ ~ThePod.exists
      /\ StoreKey \in DOMAIN config)
     => /\ Lookup(browser.annotations, selenosisOptionsAnnotationKey) = "{bad"
            => /\ browser'.status.phase = PodFailed
               /\ browser'.status.reason = "InvalidSelenosisOptions"
               /\ ~ThePod'.exists
               /\ creates' = creates
               /\ last'.res = [requeueAfter |-> 0, err |-> FALSE]
        /\ Lookup(browser.annotations, selenosisOptionsAnnotationKey) = ""
            => /\ ThePod'.exists
               /\ creates' = creates + 1
               /\ browser'.status.phase # PodFailed]_vars

C7_Witness ==
  /\ Did(last, "statusFailed")
  /\ browser.status.phase = PodFailed
  /\ browser.status.reason = "InvalidSelenosisOptions"
  /\ ~ThePod.exists

(***************************************************************************)
(* C8: whenever a pass sets a Browser to Failed because of a workload      *)
(* runtime failure (pod phase Failed, a container terminated while the pod *)
(* is Pending, a container waiting with an unrecognized reason, or the     *)
(* creation timeout), it force-deletes the pod in the same pass.           *)
(***************************************************************************)
C8_RuntimeFailureDeletesPod ==
  [][(/\ PassOnLiveBrowser
      /\ browser.status.phase # PodFailed
      /\ ThePod.exists
      /\ ThePod.status.phase \in {PodPending, PodFailed}
      /\ browser'.exists
      /\ browser'.status.phase = PodFailed)
     => /\ Did(last', "deletePod")
        /\ ~ThePod'.exists]_vars

(***************************************************************************)
(* C9: a pass that observes the pod in phase Failed first force-deletes    *)
(* the pod and then stores phase Failed with the pod's reported reason and *)
(* message; if the force delete fails, the status is not written and the   *)
(* error is returned with a 10 s requeue.                                  *)
(***************************************************************************)
C9_FailedPodDeleteThenStatus ==
  [][(/\ PassOnLiveBrowser
      /\ browser.status.phase # PodFailed
      /\ ThePod.exists
      /\ ~ThePod.deleting
      /\ ThePod.status.phase = PodFailed
      /\ last'.failed \cap {"getBrowser", "addFinalizer", "labels", "pending", "getPod"} = {})
     => /\ last'.failed = {}
            => /\ Before(last', "deletePod", "statusFailed")
               /\ ~ThePod'.exists
               /\ browser'.exists
                    => /\ browser'.status.phase = PodFailed
                       /\ \/ browser'.status.message =
                               <<"pod has failed with reason", ThePod.status.reason,
                                 ThePod.status.message>>
                          \/ /\ browser'.status.message = <<ThePod.status.message>>
                             /\ browser'.status.reason = ThePod.status.reason
        /\ "deletePod" \in last'.failed
            => /\ ~Did(last', "statusFailed")
               /\ browser'.status.phase # PodFailed
               /\ browser'.status.message = browser.status.message
               /\ last'.res = [requeueAfter |-> 10, err |-> TRUE]]_vars

C9_Witness ==
  /\ Before(last, "deletePod", "statusFailed")
  /\ browser.exists
  /\ browser.status.phase = PodFailed
  /\ Len(browser.status.message) = 3
  /\ browser.status.message[2] = "Evicted"
  /\ ~ThePod.exists

(***************************************************************************)
(* C10: while the pod is Pending, if any container is waiting with a       *)
(* reason other than ContainerCreating or PodInitializing, the pass        *)
(* force-deletes the pod and sets the Browser to Failed; if every waiting  *)
(* container has one of those two reasons, the pod is younger than the     *)
(* creation timeout and no container is terminated, the Browser is not set *)
(* to Failed and the pod is not deleted.                                   *)
(***************************************************************************)
WaitingUnrecognized(pod) ==
  \E i \in 1..Len(pod.status.containerStatuses) :
    /\ pod.status.containerStatuses[i].state.kind = "waiting"
    /\ pod.status.containerStatuses[i].state.reason \notin {"ContainerCreating", "PodInitializing"}

AnyTerminated(pod) ==
  \E i \in 1..Len(pod.status.containerStatuses) :
    pod.status.containerStatuses[i].state.kind = "terminated"

C10_PendingWaitingReasons ==
  [][(/\ PassOnLiveBrowser
      /\ last'.failed = {}
      /\ browser.status.phase # PodFailed
      /\ ThePod.exists
      /\ ~ThePod.deleting
      /\ ThePod.status.phase = PodPending)
     => /\ WaitingUnrecognized(ThePod)
            => /\ Did(last', "deletePod")
               /\ ~ThePod'.exists
               /\ browser'.status.phase = PodFailed
        /\ (/\ ~WaitingUnrecognized(ThePod)
            /\ ~AnyTerminated(ThePod)
            /\ ThePod.age <= podCreationTimeout)
            => /\ browser'.status.phase # PodFailed
               /\ ThePod'.exists
               /\ ~Did(last', "deletePod")]_vars

(***************************************************************************)
(* C11: if the pod is Pending, a container is waiting and the pod is older *)
(* than the creation timeout, the pass sets the Browser to Failed with the *)
(* timeout message, whatever the waiting reason is and although no         *)
(* container is terminated.                                                *)
(***************************************************************************)
AnyWaiting(pod) ==
  \E i \in 1..Len(pod.status.containerStatuses) :
    pod.status.containerStatuses[i].state.kind = "waiting"

TimeoutMessage == <<"pod creation timeout exceeded after", podCreationTimeout>>

C11_CreationTimeout ==
  [][(/\ PassOnLiveBrowser
      /\ last'.failed = {}
      /\ browser.status.phase # PodFailed
      /\ ThePod.exists
      /\ ~ThePod.deleting
      /\ ThePod.status.phase = PodPending
      /\ AnyWaiting(ThePod)
      /\ ~AnyTerminated(ThePod)
      /\ ThePod.age > podCreationTimeout)
     => /\ Did(last', "statusFailed")
        /\ browser'.status.phase = PodFailed
        /\ browser'.status.message = TimeoutMessage]_vars

C11_Witness ==
  /\ Did(last, "statusFailed")
  /\ browser.status.phase = PodFailed
  /\ browser.status.message = TimeoutMessage
  /\ ThePod.exists
  /\ ~WaitingUnrecognized(ThePod)
  /\ ~AnyTerminated(ThePod)

(***************************************************************************)
(* C12: whenever a pass on a non-deleted, non-Failed Browser observes the  *)
(* container named browser or seleniferous terminated, it stores phase     *)
(* Failed and then initiates the deletion of the Browser.                  *)
(***************************************************************************)
MarkedFailedThenDeleted ==
  /\ Before(last', "statusUpdate", "deleteBrowser")
  /\ browser'.exists => (browser'.deleting /\ browser'.status.phase = PodFailed)

C12_CriticalTerminatedDeletesBrowser ==
  [][(/\ PassOnLiveBrowser
      /\ last'.failed = {}
      /\ browser.status.phase # PodFailed
      /\ ThePod.exists
      /\ CriticalTerminated(ThePod))
     => MarkedFailedThenDeleted]_vars

\* C12, amended: the pass does so when the pod is neither Pending nor marked
\* for deletion; for a Pending pod it stores Failed and leaves the Browser,
\* for a pod marked for deletion it deletes the Browser and leaves the phase.
C12_CriticalTerminatedWhileRunning ==
  [][(/\ PassOnLiveBrowser
      /\ last'.failed = {}
      /\ browser.status.phase # PodFailed
      /\ ThePod.exists
      /\ CriticalTerminated(ThePod))
     => /\ (~ThePod.deleting /\ ThePod.status.phase # PodPending)
            => MarkedFailedThenDeleted
        /\ (~ThePod.deleting /\ ThePod.status.phase = PodPending)
            => /\ browser'.exists /\ ~browser'.deleting
               /\ browser'.status.phase = PodFailed
               /\ ~Did(last', "deleteBrowser")
        /\ ThePod.deleting
            => /\ Did(last', "deleteBrowser")
               /\ ~Did(last', "statusUpdate")
               /\ ~Did(last', "statusFailed")]_vars

C12_Witness ==
  /\ last.op = "Reconcile"
  /\ Before(last, "statusUpdate", "deleteBrowser")
  /\ ~browser.exists
  /\ ThePod.exists
  /\ ThePod.status.phase = PodRunning
  /\ CriticalTerminated(ThePod)

(***************************************************************************)
(* C13: updateBrowserStatus writes the status only on a change: when the   *)
(* pod's phase, pod IP, start time and every container's state and restart *)
(* count equal what the Browser status holds, no status patch is issued    *)
(* and the pass returns a 30 s requeue; a pass that follows a successful   *)
(* mirroring pass with the pod unchanged issues no write.                  *)
(***************************************************************************)
MirrorEqual(b, pod) ==
  /\ b.status.phase = pod.status.phase
  /\ b.status.podIP = pod.status.podIP
  /\ b.status.startTime = pod.status.startTime
  /\ Len(b.status.containerStatuses) = Len(pod.status.containerStatuses)
  /\ \A i \in 1..Len(pod.status.containerStatuses) :
        /\ b.status.containerStatuses[i].state = pod.status.containerStatuses[i].state
        /\ b.status.containerStatuses[i].restartCount =
             pod.status.containerStatuses[i].restartCount

\* the pod gives the pass no reason to fail the Browser
SteadyPod(pod) ==
  /\ pod.exists
  /\ ~pod.deleting
  /\ pod.status.phase # PodFailed
  /\ ~AnyTerminated(pod)
  /\ pod.status.phase = PodPending
       => /\ ~WaitingUnrecognized(pod)
          /\ AnyWaiting(pod) => pod.age <= podCreationTimeout

C13_StatusWrittenOnlyOnChange ==
  [][/\ (/\ PassOnLiveBrowser
          /\ last'.failed = {}
          /\ browser.status.phase # PodFailed
          /\ SteadyPod(ThePod)
          /\ MirrorEqual(browser, ThePod))
         => /\ ~Did(last', "statusUpdate")
            /\ ~Did(last', "statusFailed")
            /\ browser'.status = browser.status
            /\ last'.res = [requeueAfter |-> periodicReconcile, err |-> FALSE]
     /\ (/\ Did(last, "statusUpdate")
          /\ last.failed = {}
          /\ last'.op = "Reconcile"
          /\ last'.failed = {})
         => /\ ~Did(last', "statusUpdate")
            /\ ~Did(last', "pending")
            /\ ~Did(last', "statusFailed")]_vars

\* the pass that follows a mirroring pass has run and has written nothing
C13_Witness ==
  /\ last.op = "Reconcile"
  /\ last.ops = <<"getBrowser", "getPod">>
  /\ last.res = [requeueAfter |-> periodicReconcile, err |-> FALSE]
  /\ ThePod.status.phase = PodRunning
  /\ MirrorEqual(browser, ThePod)
  /\ Len(browser.status.containerStatuses) = 2

(***************************************************************************)
(* C14: in the deletion handshake (deletion marker set, finalizer          *)
(* present), while the pod exists and its removal has not been pending     *)
(* longer than the deletion timeout, the pass leaves the finalizer and     *)
(* returns a 3 s requeue; it deletes the pod only when the pod is not      *)
(* already being removed, with grace period 0 exactly when the pod's phase *)
(* is Failed.                                                              *)
(***************************************************************************)
HandshakePass ==
  /\ last'.op = "Reconcile"
  /\ browser.exists
  /\ browser.deleting
  /\ HasFinalizer(browser)

C14_HandshakeWaitsForPod ==
  [][(/\ HandshakePass
      /\ ThePod.exists
      /\ ThePod.deleting => ThePod.delAge <= podDeletionTimeout
      /\ last'.failed \cap {"getBrowser", "getPod"} = {})
     => /\ browser'.exists
        /\ HasFinalizer(browser')
        /\ last'.failed = {} => last'.res = [requeueAfter |-> quickCheck, err |-> FALSE]
        /\ ThePod.deleting
            => /\ ~Did(last', "deletePod")
               /\ ~Did(last', "deletePodGraceful")
               /\ pods' = pods
        /\ (~ThePod.deleting /\ last'.failed = {})
            => /\ ThePod.status.phase = PodFailed
                   => /\ Did(last', "deletePod")
                      /\ ~Did(last', "deletePodGraceful")
                      /\ ~ThePod'.exists
               /\ ThePod.status.phase # PodFailed
                   => /\ Did(last', "deletePodGraceful")
                      /\ ~Did(last', "deletePod")
                      /\ ThePod'.exists => ThePod'.deleting]_vars

C14_Witness ==
  /\ Did(last, "deletePodGraceful")
  /\ last.res = [requeueAfter |-> quickCheck, err |-> FALSE]
  /\ browser.exists
  /\ browser.deleting
  /\ HasFinalizer(browser)
  /\ ThePod.exists
  /\ ThePod.deleting

(***************************************************************************)
(* C15: the deletion handshake on a Browser (deletion marker set,          *)
(* finalizer present) whose pod is absent removes the finalizer in that    *)
(* pass and returns no error and no requeue; another pass afterwards       *)
(* changes nothing.                                                        *)
(***************************************************************************)
C15_HandshakeWithoutPod ==
  [][/\ (HandshakePass /\ ~ThePod.exists /\ last'.failed = {})
         => /\ Did(last', "removeFinalizer")
            /\ browser'.exists => ~HasFinalizer(browser')
            /\ pods' = pods
            /\ last'.res = [requeueAfter |-> 0, err |-> FALSE]
     /\ (/\ Did(last, "removeFinalizer")
          /\ last.failed = {}
          /\ ~ThePod.exists
          /\ last'.op = "Reconcile"
          /\ last'.failed = {})
         => /\ browser' = browser
            /\ pods' = pods
            /\ last'.res = [requeueAfter |-> 0, err |-> FALSE]]_vars

C15_Witness ==
  /\ last.op = "Reconcile"
  /\ last.ops = <<"getBrowser", "getPod", "removeFinalizer">>
  /\ last.res = [requeueAfter |-> 0, err |-> FALSE]
  /\ ~browser.exists
  /\ ~ThePod.exists

(***************************************************************************)
(* C16: if the Browser's deletion marker is set and the finalizer is       *)
(* already absent, the deletion handshake does nothing: it reads or        *)
(* deletes no pod, writes nothing to the Browser and returns no error and  *)
(* no requeue.                                                             *)
(***************************************************************************)
C16_HandshakeWithoutFinalizer ==
  [][(/\ last'.op = "Reconcile"
      /\ browser.exists
      /\ browser.deleting
      /\ ~HasFinalizer(browser)
      /\ "getBrowser" \notin last'.failed)
     => /\ last'.ops = <<"getBrowser">>
        /\ last'.failed = {}
        /\ browser' = browser
        /\ pods' = pods
        /\ last'.res = [requeueAfter |-> 0, err |-> FALSE]]_vars

C16_Witness ==
  /\ last.op = "Reconcile"
  /\ last.ops = <<"getBrowser">>
  /\ browser.exists
  /\ browser.deleting
  /\ ~HasFinalizer(browser)
  /\ ThePod.exists

(***************************************************************************)
(* C17: in the deletion handshake, when reading the pod fails with an      *)
(* error, cleanup is not blocked: the pass still removes the finalizer and *)
(* returns no error.                                                       *)
(***************************************************************************)
C17_PodReadErrorDoesNotBlock ==
  [][(HandshakePass /\ "getPod" \in last'.failed)
     => /\ "removeFinalizer" \in last'.failed \/ Did(last', "removeFinalizer")
        /\ ~Did(last', "deletePod")
        /\ ~Did(last', "deletePodGraceful")
        /\ pods' = pods
        /\ last'.failed = {"getPod"}
            => /\ browser'.exists => ~HasFinalizer(browser')
               /\ last'.res = [requeueAfter |-> 0, err |-> FALSE]]_vars

C17_Witness ==
  /\ last.op = "Reconcile"
  /\ last.failed = {"getPod"}
  /\ Did(last, "removeFinalizer")
  /\ last.res = [requeueAfter |-> 0, err |-> FALSE]
  /\ ~browser.exists

HandshakePassesOver ==
  /\ HandshakePass
  /\ \/ last'.failed = {"getPod"}
     \/ /\ last'.failed = {"deletePod"}
        /\ ThePod.deleting
        /\ ThePod.delAge > podDeletionTimeout

C19_FinalizerEventuallyRemoved ==
  /\ (browser.exists /\ browser.deleting /\ HasFinalizer(browser))
        ~> (~browser.exists \/ ~HasFinalizer(browser))
  /\ [][(HandshakePass /\ last'.failed = {} /\ Did(last', "removeFinalizer"))
         => ~ThePod'.exists]_vars

\* the handshake has force-deleted a pod whose removal was pending for too
\* long and has released the finalizer
C19_Witness ==
  /\ last.op = "Reconcile"
  /\ last.failed = {}
  /\ Before(last, "deletePod", "removeFinalizer")
  /\ ~browser.exists
  /\ ~ThePod.exists

(***************************************************************************)
(* C20: retryUpdate and retryStatusUpdate make at most 5 patch attempts    *)
(* per call; when every attempt meets a version conflict they stop after   *)
(* the 5th attempt and return an error, and the stored Browser is left     *)
(* without the intended mutation: it holds what the other writer stored.   *)
(***************************************************************************)
RetryCalled == last'.op \in {"retryUpdate", "retryStatusUpdate"}

\* the script answers the first maxRetries attempts with a conflict
AllConflict(outs) ==
  /\ Len(outs) >= maxRetries
  /\ \A i \in 1..maxRetries : outs[i] = "conflict"

C20_RetryBounded ==
  [][RetryCalled
     => /\ last'.attempts <= maxRetries
        /\ last'.patches <= maxRetries
        /\ AllConflict(last'.outs)
            => /\ last'.patches = maxRetries
               /\ last'.err
               /\ browser' = OtherWrite(last'.others, browser)]_vars

C20_Witness ==
  /\ last.op = "retryStatusUpdate"
  /\ last.outs = [i \in 1..maxRetries |-> "conflict"]
  /\ last.patches = maxRetries
  /\ last.err
  /\ browser.status.phase = ""

(***************************************************************************)
(* C21: on the first non-conflict error of the fetch or of the patch,      *)
(* retryUpdate and retryStatusUpdate return that error at once: the        *)
(* attempt that met it is the last fetch and the last patch of the call,   *)
(* and the call has written nothing.                                       *)
(***************************************************************************)
\* attempt i is the first one the script answers with a non-conflict error
FirstErrorAt(outs, i) ==
  /\ i <= Len(outs)
  /\ outs[i] \in {"patchErr", "getErr"}
  /\ \A j \in 1..(i - 1) : outs[j] = "conflict"

C21_NonConflictErrorEndsCall ==
  [][RetryCalled
     => \A i \in 1..maxRetries :
          FirstErrorAt(last'.outs, i)
            => /\ last'.err
               /\ last'.attempts = i
               /\ last'.patches = (IF last'.outs[i] = "getErr" THEN i - 1 ELSE i)
               /\ browser' = (IF i > 1 THEN OtherWrite(last'.others, browser)
                              ELSE browser)]_vars

C21_Witness ==
  /\ last.op = "retryUpdate"
  /\ last.outs = <<"conflict", "patchErr">>
  /\ last.arg
  /\ last.err
  /\ last.attempts = 2
  /\ ~HasFinalizer(browser)

(***************************************************************************)
(* C22: when the patch meets a version conflict k times (k <= 4) and then  *)
(* succeeds, the helper returns success after exactly k+1 attempts, and    *)
(* the stored Browser is the one the other writer left with the intended   *)
(* mutation applied to it.                                                 *)
(***************************************************************************)
\* the intended mutation of the recorded call, applied to b
Intended(l, b) ==
  IF l.op = "retryUpdate"
  THEN [b EXCEPT !.finalizers = IF l.arg THEN @ \cup {browserPodFinalizer}
                                ELSE @ \ {browserPodFinalizer}]
  ELSE [b EXCEPT !.status.phase = l.arg]

C22_ConflictsThenSuccess ==
  [][RetryCalled
     => \A k \in 0..(maxRetries - 1) :
          last'.outs = [i \in 1..k |-> "conflict"]
            => /\ ~last'.err
               /\ last'.attempts = k + 1
               /\ last'.patches = k + 1
               /\ browser' = Intended(last', IF k > 0 THEN OtherWrite(last'.others, browser)
                                             ELSE browser)]_vars

C22_Witness ==
  /\ last.op = "retryUpdate"
  /\ last.outs = <<"conflict", "conflict">>
  /\ last.others = "finalizer"
  /\ last.arg
  /\ ~last.err
  /\ last.attempts = 3
  /\ browser.finalizers = {browserPodFinalizer, ForeignFinalizer}

(***************************************************************************)
(* C23: a pass for a key whose Browser is no longer stored returns no      *)
(* error and no requeue, and makes no call but the read of the Browser: it *)
(* writes, creates and deletes nothing.                                    *)
(***************************************************************************)
\* the step is a pass that read the key of a Browser that is gone
PassOnGoneBrowser ==
  /\ ~browser.exists
  /\ last'.op = "Reconcile"
  /\ "getBrowser" \notin last'.failed

C23_GoneBrowserIsNoError ==
  [][PassOnGoneBrowser
     => /\ last'.res = [requeueAfter |-> 0, err |-> FALSE]
        /\ last'.ops = <<"getBrowser">>
        /\ last'.failed = {}
        /\ browser' = browser
        /\ pods' = pods
        /\ creates' = creates]_vars

C23_Witness ==
  /\ ~browser.exists
  /\ ThePod.exists
  /\ last.op = "Reconcile"
  /\ last.ops = <<"getBrowser">>
  /\ last.res = [requeueAfter |-> 0, err |-> FALSE]

(***************************************************************************)
(* C24: after any sequence of add, update and delete notifications the     *)
(* store reflects the last observed state of the catalog: Get finds a key  *)
(* exactly when some catalog object, as last observed, declares that       *)
(* browser and version in that namespace, also after an update that        *)
(* dropped the browser or the version, and the value found is the full     *)
(* template merge of a declaring entry.                                    *)
(***************************************************************************)
\* the catalog objects, as last observed, that declare the looked-up key
Declaring(namespace, browserName, version) ==
  {n \in DOMAIN catalog.objects :
     /\ catalog.objects[n].namespace = namespace
     /\ \E p \in Declared(catalog.objects[n]) :
          /\ ToLower(p[1]) = ToLower(browserName)
          /\ ToLower(p[2]) = ToLower(version)}

\* the entries a template merge of the catalog object bc gives for the key
MergedEntries(bc, browserName, version) ==
  {MergeWithTemplate(bc.spec, ord).browsers[p[1]][p[2]] :
     ord \in Orders,
     p \in {q \in Declared(bc) : /\ ToLower(q[1]) = ToLower(browserName)
                                 /\ ToLower(q[2]) = ToLower(version)}}

\* Get over the store map m: the answer of Get once the store holds m
GetFrom(m, namespace, browserName, version) ==
  LET key == keyFor(namespace, browserName, version)
  IN [cfg |-> IF key \in DOMAIN m THEN m[key] ELSE NoSpec,
      exists |-> key \in DOMAIN m]

\* every object of the initial list has been delivered
Indexed == DOMAIN catalog.pending = {}

C24_StoreReflectsCatalog ==
  Indexed
    => \A namespace \in LookupNamespaces, browserName \in LookupNames,
          version \in LookupVersions :
         LET got == StoreGet(namespace, browserName, version)
             declaring == Declaring(namespace, browserName, version)
         IN /\ got.exists <=> declaring # {}
            /\ got.exists
                 => \E n \in declaring :
                      got.cfg \in MergedEntries(catalog.objects[n], browserName, version)

\* cfg-a, added with three versions and then edited down to one, is the only
\* catalog object, and the store still answers for a version the edit dropped
C24_StaleEntry ==
  /\ Indexed
  /\ DOMAIN catalog.objects = {"cfg-a"}
  /\ Declared(catalog.objects["cfg-a"]) = {<<"Chrome", "120-RC">>}
  /\ last.op = "onAddOrUpdate"
  /\ StoreGet(BrowserNamespace, "chrome", "121").exists

(***************************************************************************)
(* C25: after a delete notification for a catalog object, every key that   *)
(* object declared returns not-found, also when the notification carries   *)
(* the object inside a DeletedFinalStateUnknown tombstone.                 *)
(***************************************************************************)
C25_DeleteRemovesDeclaredKeys ==
  [][last'.op = "onDelete"
     => \A p \in Declared(last'.obj.v) :
        \A browserName \in LookupNames \cup {p[1]}, version \in LookupVersions \cup {p[2]} :
          (ToLower(browserName) = ToLower(p[1]) /\ ToLower(version) = ToLower(p[2]))
            => ~GetFrom(config', last'.obj.v.namespace, browserName, version).exists]_vars

C25_Witness ==
  /\ last.op = "onDelete"
  /\ last.kind = "DeletedFinalStateUnknown"
  /\ Cardinality(Declared(last.obj.v)) = 3
  /\ ~StoreGet(BrowserNamespace, "chrome", "120-rc").exists
  /\ ~StoreGet(BrowserNamespace, "chrome", "121").exists
  /\ ~StoreGet(BrowserNamespace, "firefox", "99").exists

(***************************************************************************)
(* C26: the store serves no lookup before it is synced: no Get answers     *)
(* before every object of the initial list is loaded and indexed.          *)
(***************************************************************************)
C26_NoLookupBeforeSynced ==
  last.op = "Get" => last.indexed

(***************************************************************************)
(* C27: the template merge is applied exactly once per notification, to a  *)
(* private deep copy: the object the informer passed is left as it was,    *)
(* every entry stored is a single merge of the object as passed (no list   *)
(* entry doubled), and when the same object is delivered again every entry *)
(* the store held from its first delivery is left equal.                   *)
(***************************************************************************)
C27_RedeliveryLeavesEntriesEqual ==
  [][last'.op = "onAddOrUpdate"
     => LET bc == last'.obj.v
        IN /\ catalog'.objects[bc.name] = bc
           /\ \A p \in Declared(bc) :
                /\ GetFrom(config', bc.namespace, p[1], p[2]).exists
                /\ GetFrom(config', bc.namespace, p[1], p[2]).cfg \in MergedEntries(bc, p[1], p[2])
           /\ last'.again
                => \A p \in Declared(bc) :
                     LET held == StoreGet(bc.namespace, p[1], p[2])
                     IN (held.exists /\ held.cfg \in MergedEntries(bc, p[1], p[2]))
                          => GetFrom(config', bc.namespace, p[1], p[2]).cfg = held.cfg]_vars

(***************************************************************************)
(* C28: store keys are case-insensitive in browser name and version and    *)
(* case-sensitive in namespace: an entry declared as (ns, N, V) is found   *)
(* by Get(ns, N', V') whenever N' and V' differ from N and V only in       *)
(* letter case, and is not found under a namespace that differs from ns.   *)
(***************************************************************************)
C28_KeysFoldNameAndVersionOnly ==
  [][last'.op = "onAddOrUpdate"
     => \A p \in Declared(last'.obj.v) :
        \A browserName \in LookupNames, version \in LookupVersions :
          (ToLower(browserName) = ToLower(p[1]) /\ ToLower(version) = ToLower(p[2]))
            => /\ GetFrom(config', last'.obj.v.namespace, browserName, version).exists
               /\ \A namespace \in LookupNamespaces \ {last'.obj.v.namespace} :
                    ~GetFrom(config', namespace, browserName, version).exists]_vars

C28_Witness ==
  /\ last.op = "onAddOrUpdate"
  /\ <<"Chrome", "120-RC">> \in Declared(last.obj.v)
  /\ StoreGet(BrowserNamespace, "CHROME", "120-rc").exists
  /\ StoreGet(BrowserNamespace, "chrome", "120-RC").exists
  /\ ~StoreGet("NS", "Chrome", "120-RC").exists

(***************************************************************************)
(* C29: for each unkeyed list field of the merge (volumes, tolerations,    *)
(* host aliases, volume mounts, image-pull secrets) the resolved list is   *)
(* the template's entries followed by the version entry's, nothing         *)
(* dropped; it is absent only when neither contributes an entry.           *)
(***************************************************************************)
UnkeyedFields == {"volumes", "tolerations", "hostAliases", "volumeMounts", "imagePullSecrets"}

\* the catalog spec the merge was applied to, its template and version entry
MergedSpec == catalog.objects["cfg"].spec

TemplateFields == IF MergedSpec.template.nil THEN NoTemplate ELSE MergedSpec.template.v

OverrideFields == MergedSpec.browsers["chrome"]["120"].v

C29_UnkeyedListsConcatenate ==
  last.op = "MergeWithTemplate"
    => \A f \in UnkeyedFields :
         /\ last.out[f].v = TemplateFields[f].v \o OverrideFields[f].v
         /\ last.out[f].nil => TemplateFields[f].v \o OverrideFields[f].v = <<>>

(***************************************************************************)
(* C30: for each keyed-by-name list field of the merge (environment        *)
(* variables, sidecars, init containers) the resolved list holds exactly   *)
(* one entry per name of template and version entry together, and for a    *)
(* name both carry the version entry's value or image is the one kept.     *)
(***************************************************************************)
KeyedFields == {"env", "sidecars", "initContainers"}

NamesOf(list) == {list[i].name : i \in 1..Len(list)}

\* what tells a template entry from a version entry's: value or image
Kept(e) == IF "value" \in DOMAIN e THEN e.value ELSE e.image

C30_KeyedListsOverrideWins ==
  last.op = "MergeWithTemplate"
    => \A f \in KeyedFields :
         LET t == TemplateFields[f].v
             o == OverrideFields[f].v
             r == last.out[f].v
         IN /\ NamesOf(r) = NamesOf(t) \cup NamesOf(o)
            /\ \A i, j \in 1..Len(r) : r[i].name = r[j].name => i = j
            /\ \A i \in 1..Len(r) : \A k \in 1..Len(o) :
                 r[i].name = o[k].name => Kept(r[i]) = Kept(o[k])

(***************************************************************************)
(* C31: for a sidecar or init container whose name both the template and   *)
(* the version entry carry, the resolved entry keeps every sub-field the   *)
(* version entry sets (its own command, working directory, resources, and  *)
(* the entries of its own ports, volume mounts and environment) and takes  *)
(* from the template entry of that name the sub-fields it leaves unset.    *)
(***************************************************************************)
ContainerFields == {"sidecars", "initContainers"}

\* the entry of the list that carries the name
EntryNamed(list, name) == list[CHOOSE i \in 1..Len(list) : list[i].name = name]

\* the entries of a list, as a set
EntriesOf(list) == {list[i] : i \in 1..Len(list)}

C31_SubFieldsInheritedWhenUnset ==
  last.op = "MergeWithTemplate"
    => \A f \in ContainerFields :
       \A name \in NamesOf(TemplateFields[f].v) \cap NamesOf(OverrideFields[f].v) :
         LET t == EntryNamed(TemplateFields[f].v, name)
             o == EntryNamed(OverrideFields[f].v, name)
             r == EntryNamed(last.out[f].v, name)
         IN /\ \A sub \in {"command", "workingDir", "resources"} :
                 r[sub] = IF o[sub].nil THEN t[sub] ELSE o[sub]
            /\ \A sub \in {"ports", "volumeMounts", "env"} :
                 /\ o[sub].nil => EntriesOf(r[sub].v) = EntriesOf(t[sub].v)
                 /\ ~o[sub].nil => EntriesOf(o[sub].v) \subseteq EntriesOf(r[sub].v)

(***************************************************************************)
(* C32: after a reconcile pass that returns no error on a Browser that is  *)
(* neither marked for deletion nor Failed, the stored Browser carries the  *)
(* three asserted labels, whatever labels it carried before:               *)
(* selenosis.io/browser = its name, selenosis.io/browser.name =            *)
(* spec.browserName, selenosis.io/browser.version = spec.browserVersion.   *)
(***************************************************************************)
AssertedLabels(b) ==
  /\ Lookup(b.labels, "selenosis.io/browser") = b.name
  /\ Lookup(b.labels, "selenosis.io/browser.name") = b.spec.browserName
  /\ Lookup(b.labels, "selenosis.io/browser.version") = b.spec.browserVersion

C32_LabelsAsserted ==
  [][(/\ PassOnLiveBrowser
      /\ browser.status.phase # PodFailed
      /\ ~last'.res.err
      /\ browser'.exists)
     => AssertedLabels(browser')]_vars

\* a pass without a failed call has created the pod of a Browser that came
\* with the identity label alone, and the Browser still lacks the other two
C32_LabelsLeftIncomplete ==
  /\ Did(last, "createPod")
  /\ last.failed = {}
  /\ browser.labels = [k \in {"selenosis.io/browser"} |-> BrowserObjName]

(***************************************************************************)
(* C33: the pod a pass creates carries the Browser's labels as stored at   *)
(* creation time, the three identity labels the controller asserts among   *)
(* them, also when the same pass asserted them.                            *)
(***************************************************************************)
IdentityLabels ==
  {"selenosis.io/browser", "selenosis.io/browser.name", "selenosis.io/browser.version"}

\* this step is a reconcile pass that created the pod named after the Browser
PassCreatedPod ==
  /\ last'.op = "Reconcile"
  /\ creates' = creates + 1
  /\ pods'[BrowserObjName].exists

C33_PodCarriesStoredLabels ==
  [][PassCreatedPod
     => \A k \in DOMAIN browser'.labels :
          /\ k \in DOMAIN pods'[BrowserObjName].labels
          /\ k \in IdentityLabels => pods'[BrowserObjName].labels[k] = browser'.labels[k]]_vars

\* the first pass has asserted the identity labels and created the pod, and
\* the pod carries none of them
C33_PodWithoutIdentityLabels ==
  /\ Did(last, "labels")
  /\ Did(last, "createPod")
  /\ IdentityLabels \subseteq DOMAIN browser.labels
  /\ pods[BrowserObjName].exists
  /\ IdentityLabels \cap DOMAIN pods[BrowserObjName].labels = {}

(***************************************************************************)
(* C34: in the pod built by buildBrowserPod every init container and every *)
(* sidecar container has its own working directory when it has one, and    *)
(* the resolved spec's top-level working directory exactly when its own is *)
(* unset.                                                                  *)
(***************************************************************************)
\* the working directory the container built from entry e of cfg is to have
WorkingDirFor(cfg, e) ==
  IF ~e.workingDir.nil THEN e.workingDir.v
  ELSE IF ~cfg.workingDir.nil THEN cfg.workingDir.v
  ELSE ""

C34_WorkingDirOwnElseTopLevel ==
  last.op = "buildBrowserPod"
    => LET cfg == config[StoreKey]
       IN /\ Len(last.pod.initContainers) = Len(cfg.initContainers)
          /\ Len(last.pod.containers) = 1 + Len(cfg.sidecars)
          /\ \A i \in 1..Len(cfg.initContainers) :
               last.pod.initContainers[i].workingDir = WorkingDirFor(cfg, cfg.initContainers[i])
          /\ \A i \in 1..Len(cfg.sidecars) :
               last.pod.containers[i + 1].workingDir = WorkingDirFor(cfg, cfg.sidecars[i])

(***************************************************************************)
(* C35: a pass of the BrowserConfig reconciler in which no call fails adds *)
(* the finalizer browserconfig.selenosis.io/finalizer to an object that is *)
(* not marked for deletion and lacks it, removes the finalizer from an     *)
(* object marked for deletion whatever else the object carries, and for an *)
(* object that is not found returns no error and writes nothing; the pass  *)
(* run again on the object it left writes nothing.                         *)
(***************************************************************************)
\* the pass wrote the object
Wrote(r) == \E i \in 1..Len(r.ops) : r.ops[i] = "update"

C35_ConfigFinalizerGuard ==
  [][(last'.op = "BrowserConfigReconcile" /\ last'.failed = {})
     => LET o == catalog.objects[last'.name]
            after == catalog'.objects[last'.name]
            again == BrowserConfigReconcile(after, {})
        IN /\ ~last'.res.err /\ last'.res.requeueAfter = 0
           /\ ~o.exists => (after = o /\ ~Wrote(last'))
           /\ (o.exists /\ ~o.deleting)
                => /\ after = AddFinalizer(o, browserConfigFinalizer)
                   /\ Wrote(last') <=> ~ContainsFinalizer(o, browserConfigFinalizer)
           /\ (o.exists /\ o.deleting)
                => /\ after = SettleConfig(RemoveFinalizer(o, browserConfigFinalizer))
                   /\ Wrote(last') <=> ContainsFinalizer(o, browserConfigFinalizer)
           /\ again.obj = after /\ ~Wrote(again) /\ ~again.res.err]_vars

\* the finalizer was removed from cfg-a, marked for deletion, and the object
\* is gone, while cfg-b keeps the finalizer a pass gave it
C35_Witness ==
  /\ last.op = "BrowserConfigReconcile"
  /\ last.name = "cfg-a"
  /\ last.ops = <<"get", "update">>
  /\ ~catalog.objects["cfg-a"].exists
  /\ catalog.objects["cfg-b"].exists
  /\ catalog.objects["cfg-b"].finalizers = {browserConfigFinalizer, ForeignFinalizer}

(***************************************************************************)
(* C36: under fair scheduling and without persistent platform errors, a    *)
(* new Browser with a matching store entry and valid options eventually    *)
(* has a pod of its name, and a pod's phase, IP and start time are         *)
(* eventually mirrored into the Browser's status (phase Running once the   *)
(* pod is Running), unless the Browser is deleted or has failed, the entry *)
(* has left the store, or the pod is gone or being deleted by then.        *)
(***************************************************************************)
\* the Browser is stored, not marked for deletion and not Failed
LiveBrowser == browser.exists /\ ~browser.deleting /\ browser.status.phase # PodFailed

\* the Browser's status shows the pod's phase, IP and start time
Mirrored ==
  /\ browser.status.phase = ThePod.status.phase
  /\ browser.status.podIP = ThePod.status.podIP
  /\ ThePod.status.startTime # 0 => browser.status.startTime = ThePod.status.startTime

C36_PodCreatedAndMirrored ==
  /\ (LiveBrowser /\ creates = 0 /\ ~ThePod.exists /\ StoreKey \in DOMAIN config)
        ~> (ThePod.exists \/ creates > 0 \/ ~LiveBrowser \/ StoreKey \notin DOMAIN config)
  /\ (LiveBrowser /\ ThePod.exists /\ ~ThePod.deleting)
        ~> (Mirrored \/ ~LiveBrowser \/ ~ThePod.exists \/ ThePod.deleting)
  /\ (LiveBrowser /\ ThePod.exists /\ ~ThePod.deleting /\ ThePod.status.phase = PodRunning)
        ~> (browser.status.phase = PodRunning \/ ~LiveBrowser \/ ~ThePod.exists
              \/ ThePod.deleting \/ ThePod.status.phase # PodRunning)

\* the first pod of the Browser is Running and a pass has just written its
\* phase, IP and start time into the Browser's status
C36_Witness ==
  /\ Did(last, "statusUpdate")
  /\ creates = 1
  /\ LiveBrowser
  /\ ThePod.exists /\ ThePod.status.phase = PodRunning
  /\ browser.status.phase = PodRunning
  /\ browser.status.podIP = "10.0.0.1"
  /\ browser.status.startTime = 1

(***************************************************************************)
(* C37: when a pass on a Browser that is neither marked for deletion nor   *)
(* Failed finds the Browser's pod marked for deletion, what it does from   *)
(* there is to remove the finalizer (when the copy read in the pass        *)
(* carries it) and to delete the Browser: no status write, no pod delete,  *)
(* no failed-pod or pending-container handling comes before or after.      *)
(***************************************************************************)
\* the calls of the log l made after the pod was read
AfterGetPod(l) ==
  LET at == CHOOSE i \in 1..Len(l.ops) : l.ops[i] = "getPod"
  IN SubSeq(l.ops, at + 1, Len(l.ops))

\* this step is a pass without a failed call on a live Browser that is not
\* Failed and whose pod is marked for deletion
PassFindsPodDeleting ==
  /\ PassOnLiveBrowser
  /\ browser.status.phase # PodFailed
  /\ pods[BrowserObjName].exists /\ pods[BrowserObjName].deleting
  /\ last'.failed = {}

C37_PodDeletingDeletesBrowser ==
  [][PassFindsPodDeleting
     => /\ AfterGetPod(last') = (IF HasFinalizer(browser) THEN <<"removeFinalizer">> ELSE <<>>)
                                  \o <<"deleteBrowser">>
        /\ ~last'.res.err
        /\ pods' = pods
        /\ ~browser'.exists \/ (browser'.deleting /\ browser'.status = browser.status)]_vars

\* the pod was Failed and marked for deletion: the pass deleted the Browser
\* and left the pod and the status alone
C37_Witness ==
  /\ last.op = "Reconcile"
  /\ last.ops = <<"getBrowser", "getPod", "removeFinalizer", "deleteBrowser">>
  /\ ~browser.exists
  /\ pods[BrowserObjName].exists
  /\ pods[BrowserObjName].deleting
  /\ pods[BrowserObjName].status.phase = PodFailed

(***************************************************************************)
(* C38: a pod is created only in the Pending state without a pod: at every *)
(* pod create the Browser's stored status.phase is Pending, so a Browser   *)
(* whose stored phase is Running, Succeeded or Unknown and whose pod is    *)
(* absent gets no new pod.                                                 *)
(***************************************************************************)
C38_CreateOnlyWhenPending ==
  [][PassCreatedPod
     => /\ browser.status.phase \in {"", PodPending}
        /\ browser'.status.phase = PodPending]_vars

\* a pass has created a second pod for a Browser whose stored phase is Running
C38_CreatedWhileRunning ==
  /\ Did(last, "createPod")
  /\ creates = 2
  /\ browser.status.phase = PodRunning
  /\ pods[BrowserObjName].exists

(***************************************************************************)
(* C39: a pass that finds a pod of the Browser's name without the owner    *)
(* reference to the Browser neither deletes that pod nor mirrors its state *)
(* into the Browser's status.                                              *)
(***************************************************************************)
\* the pass deleted the pod it read
PassDeletedPod(l) == Did(l, "deletePod") \/ Did(l, "deletePodGraceful")

\* the pass wrote the pod's state into the Browser's status
PassMirroredPod(l) == Did(l, "statusUpdate") \/ Did(l, "statusFailed")

C39_ForeignPodLeftAlone ==
  [][(last'.op = "Reconcile" /\ ThePod.exists /\ ThePod.owner # BrowserObjName)
     => /\ ~PassDeletedPod(last')
        /\ ~PassMirroredPod(last')
        /\ pods' = pods]_vars

\* the Browser reports the IP of a running pod that is not its own
C39_ForeignPodMirrored ==
  /\ Did(last, "statusUpdate")
  /\ ThePod.exists /\ ThePod.owner = ForeignOwner
  /\ browser.exists
  /\ browser.status.phase = PodRunning
  /\ browser.status.podIP = ThePod.status.podIP

\* a failed pod that is not the Browser's own was deleted
C39_ForeignPodDeleted ==
  /\ PassDeletedPod(last)
  /\ creates = 0
  /\ ~ThePod.exists

(***************************************************************************)
(* C40: when two catalog objects of one namespace declare the same         *)
(* (browserName, version) key, a delete notification for one of them       *)
(* leaves the key resolvable: Get still returns the resolved entry of the  *)
(* catalog object that still exists.                                       *)
(***************************************************************************)
\* the catalog objects other than bc that declare the pair p in bc's namespace
OthersDeclaring(objects, bc, p) ==
  {n \in DOMAIN objects :
     /\ n # bc.name
     /\ objects[n].namespace = bc.namespace
     /\ \E q \in Declared(objects[n]) :
          /\ ToLower(q[1]) = ToLower(p[1])
          /\ ToLower(q[2]) = ToLower(p[2])}

C40_SharedKeySurvivesDelete ==
  [][last'.op = "onDelete"
     => \A p \in Declared(last'.obj.v) :
          LET others == OthersDeclaring(catalog'.objects, last'.obj.v, p)
              got == GetFrom(config', last'.obj.v.namespace, p[1], p[2])
          IN others # {}
               => /\ got.exists
                  /\ \E n \in others :
                       got.cfg \in MergedEntries(catalog'.objects[n], p[1], p[2])]_vars

\* cfg-b is deleted while cfg-a still declares chrome 121, and the store no
\* longer answers for chrome 121
C40_SharedKeyLost ==
  /\ last.op = "onDelete"
  /\ last.obj.v.name = "cfg-b"
  /\ "cfg-a" \in DOMAIN catalog.objects
  /\ <<"Chrome", "121">> \in Declared(catalog.objects["cfg-a"])
  /\ ~StoreGet(BrowserNamespace, "chrome", "121").exists

====
